---- MODULE Spec2Model ----
(***************************************************************************)
(* Model of the recurrence-and-reconciliation engine of v4-planner:        *)
(*   - the recurrence generator and the placeholder cache manager          *)
(*     (src/data/placeholders.ts),                                         *)
(*   - the calendar view's reconciliation and incremental range fetch      *)
(*     (components/calendar/CalendarWorkspace.tsx).                        *)
(*                                                                         *)
(* Dates.  An ISO date string 'yyyy-MM-dd' is modelled by its day number   *)
(* (day 0 is a Monday); an unparsable string by InvalidDateStr.  A JS Date *)
(* is modelled by a number of ticks, TicksPerDay ticks to a day, so that   *)
(* parseISO and format are not inverse to each other on every Date.  The   *)
(* Invalid Date (getTime() is NaN) is the value NaN.                       *)
(* Times.  An 'HH:mm' string is modelled by the pair <<hours, minutes>>.   *)
(***************************************************************************)
EXTENDS Integers, Sequences, FiniteSets, TLC

\* ------------------------------------------------------------------ bounds
MaxDay == 20
TicksPerDay == 2
MaxSessions == 2
MaxHolidays == 2

\* ------------------------------------------------------- date primitives
InvalidDateStr == 0 - 1
NaN == 0 - 99999

Days == 0..MaxDay

IsNaN(t) == t = NaN

\* date-fns parseISO on a date-only string: local midnight of that day
parseISO(s) == IF s \in Nat THEN s * TicksPerDay ELSE NaN

\* date-fns addDays
addDays(t, n) == IF IsNaN(t) THEN NaN ELSE t + n * TicksPerDay

\* date-fns getISODay: 1 = Monday .. 7 = Sunday
getISODay(t) == ((t \div TicksPerDay) % 7) + 1

\* date-fns format(date, 'yyyy-MM-dd'): the calendar day the instant lies in
formatDate(t) == t \div TicksPerDay

\* ----------------------------------------------------- scope primitives
normalizeTarget(value) ==
  CASE value = " All " -> "all"
    [] value = "ALL" -> "all"
    [] value = "G1" -> "g1"
    [] value = " g1" -> "g1"
    [] value = "7A" -> "7a"
    [] value = "7B" -> "7b"
    [] value = "L1" -> "l1"
    [] value = "L2" -> "l2"
    [] OTHER -> value

\* a time is the tuple of the numbers between the colons of the string; a
\* string without a colon leaves `minutes` undefined and the sum NaN
toMinutes(time) == IF Len(time) < 2 THEN NaN ELSE time[1] * 60 + time[2]

\* the JavaScript binary minus on numbers
subtract(a, b) == IF IsNaN(a) \/ IsNaN(b) THEN NaN ELSE a - b

\* Math.max of two numbers
Max(a, b) == IF IsNaN(a) \/ IsNaN(b) THEN NaN ELSE IF a >= b THEN a ELSE b

\* mapHolidayToWindow that takes an inverted range as the days between its ends
mapHolidayToWindowEitherOrder(holiday) ==
  LET start == parseISO(holiday.startDate)
      end == parseISO(holiday.endDate)
      targets == {normalizeTarget(g) : g \in holiday.affectsGroups}
  IN IF IsNaN(start) \/ IsNaN(end)
       THEN [valid |-> FALSE, id |-> holiday.id, start |-> NaN, end |-> NaN,
             appliesToAll |-> FALSE, targets |-> {}]
       ELSE [valid |-> TRUE, id |-> holiday.id,
             start |-> IF end < start THEN end ELSE start,
             end |-> IF end < start THEN start ELSE end,
             appliesToAll |-> "all" \in targets, targets |-> targets]

\* HolidayWindow | null; null is the record with valid = FALSE
mapHolidayToWindow(holiday) ==
  LET start == parseISO(holiday.startDate)
      end == parseISO(holiday.endDate)
  IN IF IsNaN(start) \/ IsNaN(end) \/ end < start
       THEN [valid |-> FALSE, id |-> holiday.id, start |-> NaN, end |-> NaN,
             appliesToAll |-> FALSE, targets |-> {}]
       ELSE LET targets == {normalizeTarget(g) : g \in holiday.affectsGroups}
            IN [valid |-> TRUE, id |-> holiday.id, start |-> start, end |-> end,
                appliesToAll |-> "all" \in targets, targets |-> targets]

\* holidays.map(mapHolidayToWindow).filter(window !== null)
holidayWindowsOf(hs) == {w \in {mapHolidayToWindow(h) : h \in hs} : w.valid}

\* holidayCoversGroup comparing the group id only
holidayCoversGroupById(window, group) ==
  IF window.appliesToAll
    THEN TRUE
    ELSE normalizeTarget(group.id) \in window.targets

holidayCoversGroup(window, group) ==
  IF window.appliesToAll
    THEN TRUE
    ELSE \E value \in {normalizeTarget(group.id), normalizeTarget(group.displayName),
                       normalizeTarget(group.levelId)} : value \in window.targets

\* mutant: the window's last day is not covered
dateFallsInsideExclusiveEnd(date, window) == date >= window.start /\ date < window.end

dateFallsInside(date, window) == date >= window.start /\ date <= window.end

\* computeFirstOccurrence that never returns the start day itself
computeFirstOccurrenceAfterStart(start, desiredIsoDay) ==
  LET startIsoDay == getISODay(start)
      offset == ((desiredIsoDay - startIsoDay + 6) % 7) + 1
  IN addDays(start, offset)

computeFirstOccurrence(start, desiredIsoDay) ==
  LET startIsoDay == getISODay(start)
      offset == (desiredIsoDay - startIsoDay + 7) % 7
  IN addDays(start, offset)

\* ------------------------------------------------- recurrence generator
\* the while loop of one session: occurrences from `occurrence` up to `end`
RECURSIVE sessionLoop(_, _, _, _, _, _)
sessionLoop(schedule, session, durationMinutes, occurrence, end, relevantHolidays) ==
  IF ~(occurrence <= end)
    THEN <<>>
    ELSE LET isBlocked == \E window \in relevantHolidays : dateFallsInside(occurrence, window)
             dateString == formatDate(occurrence)
             slot == [id |-> <<schedule.id, dateString, session.startTime, session.endTime>>,
                      scheduleId |-> schedule.id,
                      groupId |-> schedule.groupId,
                      trimesterId |-> schedule.trimesterId,
                      date |-> dateString,
                      dayOfWeek |-> session.dayOfWeek,
                      startTime |-> session.startTime,
                      endTime |-> session.endTime,
                      durationMinutes |-> durationMinutes,
                      source |-> "schedule"]
             rest == sessionLoop(schedule, session, durationMinutes,
                                 addDays(occurrence, 7), end, relevantHolidays)
         IN IF ~isBlocked THEN <<slot>> \o rest ELSE rest

\* the body of the for loop over schedule.sessions, for one session
slotsForSession(schedule, session, start, end, relevantHolidays) ==
  LET durationMinutes == Max(0, subtract(toMinutes(session.endTime), toMinutes(session.startTime)))
  IN IF durationMinutes = 0
       THEN <<>>
       ELSE sessionLoop(schedule, session, durationMinutes,
                        computeFirstOccurrence(start, session.dayOfWeek), end, relevantHolidays)

RECURSIVE sessionsLoop(_, _, _, _, _)
sessionsLoop(schedule, sessions, start, end, relevantHolidays) ==
  IF sessions = <<>>
    THEN <<>>
    ELSE slotsForSession(schedule, Head(sessions), start, end, relevantHolidays)
           \o sessionsLoop(schedule, Tail(sessions), start, end, relevantHolidays)

computePlaceholderSlotsForSchedule(schedule, trimester, group, holidayWindows) ==
  LET start == parseISO(trimester.startDate)
      end == parseISO(trimester.endDate)
  IN IF IsNaN(start) \/ IsNaN(end) \/ end < start
       THEN <<>>
       ELSE LET relevantHolidays == {w \in holidayWindows : holidayCoversGroup(w, group)}
            IN sessionsLoop(schedule, schedule.sessions, start, end, relevantHolidays)

\* ------------------------------------------------------------ variables
VARIABLES
  \* persisted store (Dexie tables)
  trimesters, groups, holidays, schedules, placeholderSlots,
  \* running recompute calls and the store transaction they use
  calls, txOwner, txView, writes, started,
  \* what the last step read from the store, when that step was a read
  lastRead,
  \* generator harness: inputs and output of one generator run
  genInput, genOutput,
  \* schedule builder: React state of the component, and the last handler run
  builder, builderLast,
  \* persisted lessons table
  lessons,
  \* calendar view: React state
  calendarData, selectedTrimesterId, selectedLevelId, selectedGroupId, selectedStatuses,
  isBaseLoading, isRangeLoading, baseError, rangeError,
  \* calendar view: refs
  lastPrefetchedRange, latestRequestedRange, inFlightRangeKeys,
  \* calendar view: pending promises (static load, range fetches) and the last step taken
  staticLoad, fetches, lastEvent,
  \* calendar view: whether the user is still moving the visible window
  navigation

storeVars == <<trimesters, groups, holidays, schedules, placeholderSlots>>
callVars == <<calls, txOwner, txView, writes, started, lastRead>>
genVars == <<genInput, genOutput>>
builderVars == <<builder, builderLast>>
viewVars == <<calendarData, selectedTrimesterId, selectedLevelId, selectedGroupId,
              selectedStatuses, isBaseLoading, isRangeLoading, baseError, rangeError>>
filterVars == <<selectedTrimesterId, selectedLevelId, selectedGroupId, selectedStatuses>>
refVars == <<lastPrefetchedRange, latestRequestedRange, inFlightRangeKeys>>
calVars == <<lessons, viewVars, refVars, staticLoad, fetches, lastEvent, navigation>>
vars == <<storeVars, callVars, genVars, builderVars, calVars>>

\* ------------------------------------------------------------ value sets
Time0800 == <<8, 0>>
Time0900 == <<9, 0>>
Time1000 == <<10, 0>>
\* the string '8', which is not of the form HH:mm
TimeNoColon == <<8>>

SessionChoices ==
  {[dayOfWeek |-> 1, startTime |-> Time0800, endTime |-> Time0900],
   [dayOfWeek |-> 3, startTime |-> Time0900, endTime |-> Time1000],
   [dayOfWeek |-> 7, startTime |-> Time0800, endTime |-> Time1000],
   [dayOfWeek |-> 3, startTime |-> Time1000, endTime |-> Time0900],
   [dayOfWeek |-> 1, startTime |-> Time0900, endTime |-> Time0900],
   [dayOfWeek |-> 1, startTime |-> TimeNoColon, endTime |-> Time0900]}

SeqsUpTo(S, n) == UNION {[1..k -> S] : k \in 0..n}

G1 == [id |-> "g1", levelId |-> "L1", displayName |-> "7A"]
G2 == [id |-> "g2", levelId |-> "L2", displayName |-> "7B"]

HolidayChoices ==
  {[id |-> "h1", startDate |-> 7, endDate |-> 9, affectsGroups |-> {" All "}],
   [id |-> "h2", startDate |-> 0, endDate |-> MaxDay, affectsGroups |-> {"7A"}],
   [id |-> "h3", startDate |-> 9, endDate |-> 7, affectsGroups |-> {"all"}],
   [id |-> "h4", startDate |-> 14, endDate |-> 14, affectsGroups |-> {"g2", "G1"}],
   [id |-> "h5", startDate |-> InvalidDateStr, endDate |-> 3, affectsGroups |-> {"ALL"}],
   [id |-> "h6", startDate |-> 2, endDate |-> 2, affectsGroups |-> {"L1", "7B"}]}

TrimesterChoices ==
  {[id |-> "t1", startDate |-> 0, endDate |-> MaxDay],
   [id |-> "t1", startDate |-> 2, endDate |-> 16],
   [id |-> "t1", startDate |-> 2, endDate |-> 3],
   [id |-> "t1", startDate |-> 9, endDate |-> 2],
   [id |-> "t1", startDate |-> 3, endDate |-> InvalidDateStr]}

\* a table holds at most one record per primary key
UniqueIds(table) == \A a, b \in table : a.id = b.id => a = b

HolidaySets == {hs \in SUBSET HolidayChoices : Cardinality(hs) <= MaxHolidays}

\* ------------------------------------------------- persisted store model
\* Table.put: insert or replace the record with the same primary key
putRecord(table, record) == {r \in table : r.id # record.id} \cup {record}

\* Table.delete(id)
deleteRecord(table, id) == {r \in table : r.id # id}

\* Table.bulkPut: put every item, in order
RECURSIVE bulkPut(_, _)
bulkPut(table, items) ==
  IF items = <<>> THEN table ELSE bulkPut(putRecord(table, Head(items)), Tail(items))

\* mutant: the delete removes one matching record, the latest, not all of them
deleteLastWhereScheduleId(table, scheduleId) ==
  LET matching == {r \in table : r.scheduleId = scheduleId}
  IN IF matching = {} THEN table
     ELSE table \ {CHOOSE r \in matching : \A o \in matching : o.date <= r.date}

\* mutant: the schedule's old entries are not deleted
keepWhereScheduleId(table, scheduleId) == table

\* mutant: the delete empties the whole collection
deleteEverySchedule(table, scheduleId) == {}

\* placeholderSlots.where('scheduleId').equals(id).delete()
deleteWhereScheduleId(table, scheduleId) == {r \in table : r.scheduleId # scheduleId}

\* mutant: the collection is not cleared
keepTable(table) == table

\* placeholderSlots.clear()
clearTable(table) == {}

\* mutant: an aborted transaction keeps the writes it had made
abortKeepsWrites(committed, view) == view

\* db.transaction: a rejected step aborts the transaction, its writes are rolled back
abortTransaction(committed, view) == committed

\* mutant: the delete and the insert are not wrapped in a transaction, every
\* write is visible as soon as it is made
visibleWithoutTransaction(committed, view) == view

\* db.transaction('rw', ...): what a read outside the running transaction sees
visibleToReaders(committed, view) == committed

\* DataStore.get(collection, id): the record or undefined (the empty set here)
getById(table, id) == {r \in table : r.id = id}

\* ---------------------------------------------------- harness values
\* The idle values of the shared variables; each specification below starts
\* the parts it does not exercise from them.
\* Call slots: the callers are interchangeable, a slot is taken only when
\* the slots before it are in use
Procs == {1, 2}

NoSchedule == [id |-> "", groupId |-> "", trimesterId |-> "", sessions |-> <<>>]

\* the call that completed just before a call on the same schedule started
NoFirst == [result |-> 0, cache |-> {}]

\* pre, clean and failedAt are history: the cache when the call started, whether
\* no other writer has written to the store since, and the step that rejected;
\* again and first: the call repeats a completed call on the same schedule with
\* nothing written in between, and what that call returned and left cached;
\* lastCommit: the call's transaction is the latest one committed on the cache
NoCall == [op |-> "none", pc |-> "idle", schedule |-> NoSchedule, placeholders |-> <<>>,
           result |-> 0, failedAt |-> "", pre |-> {}, clean |-> TRUE,
           again |-> FALSE, first |-> NoFirst, lastCommit |-> FALSE]

StoreEmpty ==
  /\ trimesters = {} /\ groups = {} /\ holidays = {} /\ schedules = {}
  /\ placeholderSlots = {}

NoRead == [kind |-> "none", seen |-> {}]

CallsIdle ==
  /\ calls = [p \in Procs |-> NoCall]
  /\ txOwner = 0 /\ txView = {} /\ writes = 0 /\ started = 0
  /\ lastRead = NoRead

GenIdle == genInput = [set |-> FALSE] /\ genOutput = [done |-> FALSE]

\* the form's initial session
INITIAL_SESSION == [dayOfWeek |-> 1, startTime |-> Time0800, endTime |-> Time0900]

\* no handler of the schedule builder has run; before and session are set by
\* handleAddSession: the draft it found and the session submitted
NoHandler == [handler |-> "none", ok |-> FALSE, before |-> <<>>, session |-> INITIAL_SESSION]

\* the schedule builder as mounted: the useState initial values, null is "",
\* loadData pending
BuilderMounted ==
  [pc |-> "loading", schedules |-> {}, selectedTrimesterId |-> "", selectedGroupId |-> "",
   draftSessions |-> <<>>, sessionForm |-> INITIAL_SESSION, feedback |-> "none",
   isSaving |-> FALSE]

BuilderIdle == builder = BuilderMounted /\ builderLast = NoHandler

NoEvent == [kind |-> "none", key |-> <<>>, window |-> <<>>, branch |-> ""]

\* the calendar view is not mounted
CalIdle ==
  /\ lessons = {}
  /\ calendarData = [trimesters |-> {}, levels |-> {}, groups |-> {}, lessons |-> {},
                     placeholders |-> {}]
  /\ selectedTrimesterId = "all" /\ selectedLevelId = "all" /\ selectedGroupId = "all"
  /\ selectedStatuses = {}
  /\ isBaseLoading = TRUE /\ isRangeLoading = TRUE
  /\ baseError = FALSE /\ rangeError = FALSE
  /\ lastPrefetchedRange = [set |-> FALSE, start |-> 0, end |-> 0]
  /\ latestRequestedRange = <<>> /\ inFlightRangeKeys = {}
  /\ staticLoad = "none" /\ fetches = {} /\ lastEvent = NoEvent
  /\ navigation = "moving"

GenInputs ==
  {[set |-> TRUE, schedule |-> [id |-> "s1", groupId |-> g.id, trimesterId |-> t.id,
                                sessions |-> ss],
    trimester |-> t, group |-> g, holidays |-> hs] :
     ss \in SeqsUpTo(SessionChoices, MaxSessions), t \in TrimesterChoices,
     g \in {G1, G2}, hs \in HolidaySets}

InitGen ==
  /\ StoreEmpty /\ CallsIdle /\ BuilderIdle /\ CalIdle
  /\ genInput \in GenInputs
  /\ genOutput = [done |-> FALSE]

Generate ==
  /\ ~genOutput.done
  /\ LET in == genInput
         windows == holidayWindowsOf(in.holidays)
         start == parseISO(in.trimester.startDate)
         end == parseISO(in.trimester.endDate)
         relevant == {w \in windows : holidayCoversGroup(w, in.group)}
     IN genOutput' =
          [done |-> TRUE,
           slots |-> computePlaceholderSlotsForSchedule(in.schedule, in.trimester,
                                                        in.group, windows),
           perSession |-> [i \in DOMAIN in.schedule.sessions |->
                             slotsForSession(in.schedule, in.schedule.sessions[i],
                                             start, end, relevant)]]
  /\ UNCHANGED <<genInput, builderVars, storeVars, callVars, calVars>>

NextGen == Generate

SpecGen == InitGen /\ [][NextGen]_vars

\* ------------------------------------------------------------ C3
IsoWeekday(d) == (d % 7) + 1

ValidDateStr(s) == s \in Nat

ValidPeriod(t) ==
  ValidDateStr(t.startDate) /\ ValidDateStr(t.endDate) /\ t.startDate <= t.endDate

\* a holiday whose window applies to the group and covers day d
HolidayBlocks(h, group, d) ==
  /\ ValidDateStr(h.startDate) /\ ValidDateStr(h.endDate) /\ h.startDate <= h.endDate
  /\ h.startDate <= d /\ d <= h.endDate
  /\ holidayCoversGroup(mapHolidayToWindow(h), group)

PositiveDuration(session) ==
  /\ ~IsNaN(toMinutes(session.startTime)) /\ ~IsNaN(toMinutes(session.endTime))
  /\ toMinutes(session.endTime) > toMinutes(session.startTime)

\* the dates the session should recur on within the period
ExpectedDates(session, trimester, group, hs) ==
  {d \in trimester.startDate..trimester.endDate :
     /\ IsoWeekday(d) = session.dayOfWeek
     /\ ~\E h \in hs : HolidayBlocks(h, group, d)}

MatchingDates(session, trimester) ==
  {d \in trimester.startDate..trimester.endDate : IsoWeekday(d) = session.dayOfWeek}

NoRepeat(seq) == \A i, j \in DOMAIN seq : seq[i] = seq[j] => i = j

\* C3: for a valid period and each session of positive duration, the dates of
\* the occurrences emitted for the session are exactly the dates of the period
\* on the session's ISO weekday that no holiday window applying to the group
\* covers, one occurrence per date; blocked dates are dropped, not replaced.
C3_OccurrenceDates ==
  (genOutput.done /\ ValidPeriod(genInput.trimester)) =>
    \A i \in DOMAIN genInput.schedule.sessions :
      LET session == genInput.schedule.sessions[i]
          out == genOutput.perSession[i]
          dates == [k \in DOMAIN out |-> out[k].date]
      IN (PositiveDuration(session) /\ session.dayOfWeek \in 1..7) =>
           /\ NoRepeat(dates)
           /\ {dates[k] : k \in DOMAIN dates} =
                ExpectedDates(session, genInput.trimester, genInput.group, genInput.holidays)

\* a run where a holiday removes some, but not all, dates of a session
C3_Witness ==
  /\ genOutput.done /\ ValidPeriod(genInput.trimester)
  /\ \E i \in DOMAIN genInput.schedule.sessions :
       LET session == genInput.schedule.sessions[i]
       IN /\ PositiveDuration(session)
          /\ genOutput.perSession[i] # <<>>
          /\ Len(genOutput.perSession[i]) < Cardinality(MatchingDates(session, genInput.trimester))

\* ------------------------------------------------ placeholder cache manager
\* calls started plus writes by other parts of the application
MaxOps == 2

ScheduleChoices ==
  {[id |-> "s1", groupId |-> "g1", trimesterId |-> "t1",
    sessions |-> <<[dayOfWeek |-> 1, startTime |-> Time0800, endTime |-> Time0900]>>],
   [id |-> "s1", groupId |-> "g1", trimesterId |-> "t1",
    sessions |-> <<[dayOfWeek |-> 3, startTime |-> Time0900, endTime |-> Time1000]>>],
   [id |-> "s2", groupId |-> "g2", trimesterId |-> "t1",
    sessions |-> <<[dayOfWeek |-> 7, startTime |-> Time0800, endTime |-> Time1000],
                   [dayOfWeek |-> 7, startTime |-> Time0800, endTime |-> Time1000]>>],
   [id |-> "s3", groupId |-> "g9", trimesterId |-> "t1",
    sessions |-> <<[dayOfWeek |-> 1, startTime |-> Time0800, endTime |-> Time0900]>>]}

StoreHolidayChoices == {h \in HolidayChoices : h.id \in {"h1", "h4"}}

StoreTrimesterChoices == {t \in TrimesterChoices : t.startDate \in {0, 9}}

Range(seq) == {seq[i] : i \in DOMAIN seq}

\* the order of the primary keys of the schedules table
IdRank(id) == CASE id = "s1" -> 1 [] id = "s2" -> 2 [] id = "s3" -> 3 [] OTHER -> 4

\* Table.toArray(): the records in primary-key order
RECURSIVE toArray(_)
toArray(table) ==
  IF table = {} THEN <<>>
  ELSE LET first == CHOOSE r \in table : \A o \in table : IdRank(r.id) <= IdRank(o.id)
       IN <<first>> \o toArray(table \ {first})

\* mutant: only the trimester is required; a schedule whose group is missing is
\* generated for a group known by its id alone
placeholdersForScheduleAnyGroup(schedule, trimesterRead, groupRead, holidaysRead) ==
  LET holidayWindows == holidayWindowsOf(holidaysRead)
      group == IF groupRead # {} THEN CHOOSE g \in groupRead : TRUE
               ELSE [id |-> schedule.groupId, levelId |-> "", displayName |-> ""]
  IN IF trimesterRead # {}
       THEN computePlaceholderSlotsForSchedule(schedule, CHOOSE t \in trimesterRead : TRUE,
                                               group, holidayWindows)
       ELSE <<>>

\* lines 120-127: the placeholders computed from what the reads returned
placeholdersForSchedule(schedule, trimesterRead, groupRead, holidaysRead) ==
  LET holidayWindows == holidayWindowsOf(holidaysRead)
  IN IF trimesterRead # {} /\ groupRead # {}
       THEN computePlaceholderSlotsForSchedule(schedule, CHOOSE t \in trimesterRead : TRUE,
                                               CHOOSE g \in groupRead : TRUE, holidayWindows)
       ELSE <<>>

\* lines 147-163: the loop over all schedules
RECURSIVE allPlaceholdersLoop(_, _, _, _)
allPlaceholdersLoop(scheduleList, trimestersRead, groupsRead, holidayWindows) ==
  IF scheduleList = <<>> THEN <<>>
  ELSE LET schedule == Head(scheduleList)
           trimester == getById(trimestersRead, schedule.trimesterId)
           group == getById(groupsRead, schedule.groupId)
           rest == allPlaceholdersLoop(Tail(scheduleList), trimestersRead, groupsRead,
                                       holidayWindows)
       IN IF trimester = {} \/ group = {}
            THEN rest
            ELSE computePlaceholderSlotsForSchedule(schedule, CHOOSE t \in trimester : TRUE,
                                                    CHOOSE g \in group : TRUE, holidayWindows)
                   \o rest

\* ------------------------------------------------- range projection query
\* new Map(items.map((item) => [item.id, item])).get(id): the last item with
\* that id, or undefined (the empty set here)
mapGet(items, id) ==
  LET at == {i \in DOMAIN items : items[i].id = id}
  IN IF at = {} THEN {} ELSE {items[CHOOSE i \in at : \A j \in at : j <= i]}

\* lines 207-216: the slots of one schedule that fall inside the bounds
RECURSIVE slotsInBounds(_, _, _)
slotsInBounds(slots, startBound, inclusiveEnd) ==
  IF slots = <<>> THEN <<>>
  ELSE LET slot == Head(slots)
           occurrence == parseISO(slot.date)
           rest == slotsInBounds(Tail(slots), startBound, inclusiveEnd)
       IN IF IsNaN(occurrence) THEN rest
          ELSE IF occurrence >= startBound /\ occurrence <= inclusiveEnd
                 THEN <<slot>> \o rest
                 ELSE rest

\* lines 197-217: the loop over the schedules
RECURSIVE expectedSlotsLoop(_, _, _, _, _, _)
expectedSlotsLoop(scheduleList, trimesterList, groupList, holidayWindows, startBound, inclusiveEnd) ==
  IF scheduleList = <<>> THEN <<>>
  ELSE LET schedule == Head(scheduleList)
           trimester == mapGet(trimesterList, schedule.trimesterId)
           group == mapGet(groupList, schedule.groupId)
           rest == expectedSlotsLoop(Tail(scheduleList), trimesterList, groupList,
                                     holidayWindows, startBound, inclusiveEnd)
       IN IF trimester = {} \/ group = {}
            THEN rest
            ELSE slotsInBounds(
                   computePlaceholderSlotsForSchedule(schedule, CHOOSE t \in trimester : TRUE,
                                                      CHOOSE g \in group : TRUE,
                                                      holidayWindows),
                   startBound, inclusiveEnd) \o rest

\* mutant: the later bound is taken as inclusive
inclusiveEndKeepsBound(startBound, endBound) == endBound

\* lines 185-186
inclusiveEndOf(startBound, endBound) ==
  IF startBound = endBound THEN endBound ELSE addDays(endBound, 0 - 1)

\* lines 175-220
getExpectedSlotsForRange(scheduleList, trimesterList, groupList, holidaySet, rangeStart, rangeEnd) ==
  LET startBound == IF rangeStart <= rangeEnd THEN rangeStart ELSE rangeEnd
      endBound == IF rangeStart <= rangeEnd THEN rangeEnd ELSE rangeStart
      inclusiveEnd == inclusiveEndOf(startBound, endBound)
  IN expectedSlotsLoop(scheduleList, trimesterList, groupList, holidayWindowsOf(holidaySet),
                       startBound, inclusiveEnd)

ActiveCall(c) == c.pc \notin {"idle", "done", "failed"}

\* a write by someone else: every running call has seen a writer
Disturbed(cs, writer) ==
  [q \in Procs |-> IF q # writer /\ cs[q].pc # "idle"
                     THEN [cs[q] EXCEPT !.clean = FALSE] ELSE cs[q]]

\* the version of schedule s1 the cache was last computed from
CachedSchedule == CHOOSE sc \in ScheduleChoices : sc.id = "s1" /\ sc.sessions[1].dayOfWeek = 3

\* the store of an installation in use: the cache still holds the occurrences
\* computed for s1 before its session was moved and before holiday h4 was entered
InitStore ==
  /\ trimesters = {[id |-> "t1", startDate |-> 0, endDate |-> MaxDay]}
  /\ groups = {G1, G2}
  /\ holidays = {h \in StoreHolidayChoices : h.id = "h4"}
  /\ schedules = {sc \in ScheduleChoices : sc.sessions[1].dayOfWeek # 3}
  /\ placeholderSlots =
       Range(computePlaceholderSlotsForSchedule(
               CachedSchedule, [id |-> "t1", startDate |-> 0, endDate |-> MaxDay], G1, {}))
  /\ CallsIdle /\ GenIdle /\ BuilderIdle /\ CalIdle

\* recomputePlaceholdersForSchedule(schedule) is called: the three reads are issued
CallRecomputeSchedule(p, schedule) ==
  /\ ~ActiveCall(calls[p]) /\ started + writes < MaxOps
  /\ \A q \in Procs : q < p => calls[q].pc # "idle"
  /\ started' = started + 1
  /\ LET repeated == {q \in Procs : /\ calls[q].op = "schedule" /\ calls[q].pc = "done"
                                     /\ calls[q].clean /\ calls[q].schedule = schedule}
     IN calls' = [calls EXCEPT ![p] =
                    [op |-> "schedule", pc |-> "reading", schedule |-> schedule,
                     placeholders |-> <<>>, result |-> 0, failedAt |-> "",
                     pre |-> placeholderSlots, clean |-> TRUE,
                     again |-> repeated # {}, lastCommit |-> FALSE,
                     first |-> IF repeated = {} THEN NoFirst
                               ELSE [result |-> calls[CHOOSE q \in repeated : TRUE].result,
                                     cache |-> placeholderSlots]]]
  /\ lastRead' = NoRead
  /\ UNCHANGED <<storeVars, txOwner, txView, writes, genVars, builderVars, calVars>>

\* recomputeAllPlaceholders() is called: the four reads are issued
CallRecomputeAll(p) ==
  /\ ~ActiveCall(calls[p]) /\ started + writes < MaxOps
  /\ \A q \in Procs : q < p => calls[q].pc # "idle"
  /\ started' = started + 1
  /\ calls' = [calls EXCEPT ![p] = [op |-> "all", pc |-> "reading", schedule |-> NoSchedule,
                                    placeholders |-> <<>>, result |-> 0, failedAt |-> "",
                                    pre |-> placeholderSlots, clean |-> TRUE,
                                    again |-> FALSE, first |-> NoFirst,
                                    lastCommit |-> FALSE]]
  /\ lastRead' = NoRead
  /\ UNCHANGED <<storeVars, txOwner, txView, writes, genVars, builderVars, calVars>>

\* the reads of Promise.all resolve; the placeholders are computed (lines 114-127, 140-163)
ReadsResolve(p) ==
  /\ calls[p].pc = "reading"
  /\ LET c == calls[p]
         computed ==
           IF c.op = "schedule"
             THEN placeholdersForSchedule(c.schedule, getById(trimesters, c.schedule.trimesterId),
                                          getById(groups, c.schedule.groupId), holidays)
             ELSE allPlaceholdersLoop(toArray(schedules), trimesters, groups,
                                      holidayWindowsOf(holidays))
     IN calls' = [calls EXCEPT ![p].pc = "tx", ![p].placeholders = computed]
  /\ lastRead' = NoRead
  /\ UNCHANGED <<storeVars, txOwner, txView, writes, started, genVars, builderVars, calVars>>

\* one of the reads rejects: the await throws, the call ends with the error
ReadsReject(p) ==
  /\ calls[p].pc = "reading"
  /\ calls' = [calls EXCEPT ![p].pc = "failed", ![p].failedAt = "read"]
  /\ lastRead' = NoRead
  /\ UNCHANGED <<storeVars, txOwner, txView, writes, started, genVars, builderVars, calVars>>

\* db.transaction('rw', [db.placeholderSlots], ...) starts (read-write
\* transactions on one table run one at a time) and its first step runs:
\* line 130 / line 166
TxDelete(p) ==
  /\ calls[p].pc = "tx" /\ txOwner = 0
  /\ txOwner' = p
  /\ txView' = IF calls[p].op = "schedule"
                 THEN deleteWhereScheduleId(placeholderSlots, calls[p].schedule.id)
                 ELSE clearTable(placeholderSlots)
  /\ calls' = [calls EXCEPT ![p].pc = "put"]
  /\ lastRead' = NoRead
  /\ UNCHANGED <<storeVars, writes, started, genVars, builderVars, calVars>>

\* lines 131-133 / 167-169
TxBulkPut(p) ==
  /\ calls[p].pc = "put" /\ txOwner = p
  /\ txView' = IF Len(calls[p].placeholders) # 0
                 THEN bulkPut(txView, calls[p].placeholders) ELSE txView
  /\ calls' = [calls EXCEPT ![p].pc = "commit"]
  /\ lastRead' = NoRead
  /\ UNCHANGED <<storeVars, txOwner, writes, started, genVars, builderVars, calVars>>

\* the transaction commits and the call returns placeholders.length
TxCommit(p) ==
  /\ calls[p].pc = "commit" /\ txOwner = p
  /\ placeholderSlots' = txView
  /\ txOwner' = 0 /\ txView' = {}
  /\ calls' = [q \in Procs |->
                IF q = p THEN [calls[p] EXCEPT !.pc = "done", !.lastCommit = TRUE,
                                               !.result = Len(calls[p].placeholders)]
                ELSE [Disturbed(calls, p)[q] EXCEPT !.lastCommit = FALSE]]
  /\ lastRead' = NoRead
  /\ UNCHANGED <<trimesters, groups, holidays, schedules, writes, started, genVars, builderVars, calVars>>

\* the store rejects the delete/clear or the bulkPut: the transaction aborts
\* and the error propagates out of the call
TxReject(p) ==
  /\ \/ calls[p].pc = "tx" /\ txOwner = 0
        /\ placeholderSlots' = abortTransaction(placeholderSlots, placeholderSlots)
     \/ calls[p].pc = "put" /\ txOwner = p
        /\ placeholderSlots' = abortTransaction(placeholderSlots, txView)
  /\ txOwner' = 0 /\ txView' = {}
  /\ calls' = [calls EXCEPT ![p].pc = "failed",
                            ![p].failedAt = IF calls[p].pc = "tx" THEN "delete" ELSE "put"]
  /\ lastRead' = NoRead
  /\ UNCHANGED <<trimesters, groups, holidays, schedules, writes, started, genVars, builderVars, calVars>>

\* the calendar view reads the placeholder cache while a recompute's
\* transaction is open (the store read of its range fetch, in a read
\* transaction of its own)
ReadCache ==
  /\ txOwner # 0
  /\ lastRead' = [kind |-> "cache",
                  seen |-> visibleToReaders(placeholderSlots, txView)]
  /\ lastRead' # lastRead
  /\ UNCHANGED <<storeVars, calls, txOwner, txView, writes, started, genVars, builderVars, calVars>>

\* a preview reads the four tables and projects the whole period with
\* getExpectedSlotsForRange; it neither reads nor writes the cache, so it is
\* taken between the recompute calls
ProjectRange ==
  /\ \A p \in Procs : ~ActiveCall(calls[p])
  /\ lastRead' = [kind |-> "expected",
                  seen |-> Range(getExpectedSlotsForRange(
                                   toArray(schedules), toArray(trimesters), toArray(groups),
                                   holidays, parseISO(0), addDays(parseISO(MaxDay), 1)))]
  /\ lastRead' # lastRead
  /\ UNCHANGED <<storeVars, calls, txOwner, txView, writes, started, genVars, builderVars, calVars>>

\* other writers of the store: the managers' DataStore.save / DataStore.remove
SaveHoliday(h) ==
  /\ started + writes < MaxOps
  /\ holidays' = putRecord(holidays, h)
  /\ holidays' # holidays
  /\ writes' = writes + 1 /\ calls' = Disturbed(calls, 0)
  /\ lastRead' = NoRead
  /\ UNCHANGED <<trimesters, groups, schedules, placeholderSlots, txOwner, txView, started, genVars, builderVars, calVars>>

RemoveHoliday(id) ==
  /\ started + writes < MaxOps
  /\ holidays' = deleteRecord(holidays, id)
  /\ holidays' # holidays
  /\ writes' = writes + 1 /\ calls' = Disturbed(calls, 0)
  /\ lastRead' = NoRead
  /\ UNCHANGED <<trimesters, groups, schedules, placeholderSlots, txOwner, txView, started, genVars, builderVars, calVars>>

SaveTrimester(t) ==
  /\ started + writes < MaxOps
  /\ trimesters' = putRecord(trimesters, t)
  /\ trimesters' # trimesters
  /\ writes' = writes + 1 /\ calls' = Disturbed(calls, 0)
  /\ lastRead' = NoRead
  /\ UNCHANGED <<holidays, groups, schedules, placeholderSlots, txOwner, txView, started, genVars, builderVars, calVars>>

RemoveTrimester(id) ==
  /\ started + writes < MaxOps
  /\ trimesters' = deleteRecord(trimesters, id)
  /\ trimesters' # trimesters
  /\ writes' = writes + 1 /\ calls' = Disturbed(calls, 0)
  /\ lastRead' = NoRead
  /\ UNCHANGED <<holidays, groups, schedules, placeholderSlots, txOwner, txView, started, genVars, builderVars, calVars>>

SaveSchedule(schedule) ==
  /\ started + writes < MaxOps
  /\ schedules' = putRecord(schedules, schedule)
  /\ schedules' # schedules
  /\ writes' = writes + 1 /\ calls' = Disturbed(calls, 0)
  /\ lastRead' = NoRead
  /\ UNCHANGED <<holidays, groups, trimesters, placeholderSlots, txOwner, txView, started, genVars, builderVars, calVars>>

RemoveSchedule(id) ==
  /\ started + writes < MaxOps
  /\ schedules' = deleteRecord(schedules, id)
  /\ schedules' # schedules
  /\ writes' = writes + 1 /\ calls' = Disturbed(calls, 0)
  /\ lastRead' = NoRead
  /\ UNCHANGED <<holidays, groups, trimesters, placeholderSlots, txOwner, txView, started, genVars, builderVars, calVars>>

NextStore ==
  \/ \E p \in Procs, schedule \in ScheduleChoices : CallRecomputeSchedule(p, schedule)
  \/ \E p \in Procs : CallRecomputeAll(p)
  \/ \E p \in Procs : ReadsResolve(p)
  \/ \E p \in Procs : ReadsReject(p)
  \/ \E p \in Procs : TxDelete(p)
  \/ \E p \in Procs : TxBulkPut(p)
  \/ \E p \in Procs : TxCommit(p)
  \/ \E p \in Procs : TxReject(p)
  \/ ReadCache
  \/ ProjectRange
  \/ \E h \in StoreHolidayChoices : SaveHoliday(h)
  \/ \E h \in StoreHolidayChoices : RemoveHoliday(h.id)
  \/ \E t \in StoreTrimesterChoices : SaveTrimester(t)
  \/ \E t \in StoreTrimesterChoices : RemoveTrimester(t.id)
  \/ \E schedule \in ScheduleChoices : SaveSchedule(schedule)
  \/ \E schedule \in ScheduleChoices : RemoveSchedule(schedule.id)

SpecStore == InitStore /\ [][NextStore]_vars

TypeStore == UniqueIds(placeholderSlots) /\ UniqueIds(schedules)

\* ------------------------------------------------------------ C1
\* what the generator yields for a schedule on the data stored now
GeneratedFromStore(schedule) ==
  LET trimester == getById(trimesters, schedule.trimesterId)
      group == getById(groups, schedule.groupId)
  IN IF trimester = {} \/ group = {}
       THEN {}
       ELSE Range(computePlaceholderSlotsForSchedule(schedule, CHOOSE t \in trimester : TRUE,
                                                     CHOOSE g \in group : TRUE,
                                                     holidayWindowsOf(holidays)))

CachedFor(table, scheduleId) == {r \in table : r.scheduleId = scheduleId}

\* C1: with no other writer active, after recomputePlaceholdersForSchedule(S)
\* completes the cached occurrences of S are exactly the generator output for S
\* on the stored trimester, group and holidays; an occurrence of S cached before
\* the call survives only if it is generated again.
C1_RecomputeScheduleExact ==
  \A p \in Procs :
    LET c == calls[p]
    IN (c.op = "schedule" /\ c.pc = "done" /\ c.clean) =>
         /\ CachedFor(placeholderSlots, c.schedule.id) = GeneratedFromStore(c.schedule)
         /\ \A r \in CachedFor(c.pre, c.schedule.id) :
              r \in placeholderSlots => r \in GeneratedFromStore(c.schedule)

\* a completed recompute that removed a stale occurrence and cached fresh ones
C1_Witness ==
  \E p \in Procs :
    LET c == calls[p]
    IN /\ c.op = "schedule" /\ c.pc = "done" /\ c.clean
       /\ CachedFor(placeholderSlots, c.schedule.id) # {}
       /\ \E r \in CachedFor(c.pre, c.schedule.id) : r \notin placeholderSlots

\* ------------------------------------------------------------ C2
Resolves(schedule) ==
  getById(trimesters, schedule.trimesterId) # {} /\ getById(groups, schedule.groupId) # {}

GeneratedForAll == UNION {GeneratedFromStore(sc) : sc \in {x \in schedules : Resolves(x)}}

\* C2: after recomputeAllPlaceholders completes (no other writer active) the
\* whole cache is the union of the generator outputs of the stored schedules
\* whose trimester and group resolve; every other entry cached before is gone.
C2_RecomputeAllExact ==
  \A p \in Procs :
    LET c == calls[p]
    IN (c.op = "all" /\ c.pc = "done" /\ c.clean) =>
         /\ placeholderSlots = GeneratedForAll
         /\ \A r \in c.pre : r \notin GeneratedForAll => r \notin placeholderSlots

\* a completed full rebuild that dropped the entries of a schedule that no
\* longer exists or resolves and kept those of another
C2_Witness ==
  \E p \in Procs :
    LET c == calls[p]
    IN /\ c.op = "all" /\ c.pc = "done" /\ c.clean
       /\ placeholderSlots # {}
       /\ \E r \in c.pre :
            /\ r \notin placeholderSlots
            /\ \A sc \in schedules : sc.id = r.scheduleId => ~Resolves(sc)

\* ------------------------------------------------------------ C10
\* C10: when the store rejects a step of a recompute (a read, the delete/clear
\* or the bulk insert) the call ends with the error and the cache is as it was
\* before the call (no other writer active): never the old entries deleted
\* without the new ones inserted.
C10_FailedRecomputeKeepsCache ==
  \A p \in Procs :
    LET c == calls[p]
    IN (c.pc = "failed" /\ c.clean) =>
         /\ placeholderSlots = c.pre
         /\ c.result = 0
         /\ txOwner # p

\* a bulk insert rejected after the delete had removed entries in the transaction
C10_Witness ==
  \E p \in Procs :
    LET c == calls[p]
    IN /\ c.pc = "failed" /\ c.clean /\ c.failedAt = "put"
       /\ c.placeholders # <<>>
       /\ \E r \in c.pre : r.scheduleId = c.schedule.id \/ c.op = "all"

\* ------------------------------------------------------------ C27
\* C27: at the step on which recomputePlaceholdersForSchedule(S) commits its
\* transaction and completes, the cached occurrences of S are the generator
\* output on the trimester, group and holidays stored at that moment, whatever
\* was saved while the call was suspended.
C27_CommitMatchesStoreAtCommit ==
  [][\A p \in Procs :
       (calls[p].op = "schedule" /\ calls[p].pc = "commit" /\ calls'[p].pc = "done") =>
         CachedFor(placeholderSlots', calls[p].schedule.id) =
           GeneratedFromStore(calls[p].schedule)]_vars

\* ------------------------------------------------------------ C28
OtherThan(table, scheduleId) == {r \in table : r.scheduleId # scheduleId}

\* C28: every step of recomputePlaceholdersForSchedule(S), from the call to its
\* completion or failure, leaves the cached occurrences of the other schedules
\* as they are, and leaves schedules, trimesters, groups, holidays and lessons
\* unchanged.
C28_RecomputeScheduleFrame ==
  [][\A p \in Procs :
       (calls'[p].op = "schedule" /\ calls'[p].pc # calls[p].pc) =>
         /\ OtherThan(placeholderSlots', calls'[p].schedule.id) =
              OtherThan(placeholderSlots, calls'[p].schedule.id)
         /\ UNCHANGED <<schedules, trimesters, groups, holidays, lessons>>]_vars

\* a completed recompute that changed the cached occurrences of its schedule
\* while occurrences of another schedule are cached
C28_Witness ==
  \E p \in Procs :
    LET c == calls[p]
    IN /\ c.op = "schedule" /\ c.pc = "done"
       /\ CachedFor(placeholderSlots, c.schedule.id) # CachedFor(c.pre, c.schedule.id)
       /\ OtherThan(placeholderSlots, c.schedule.id) # {}

\* ------------------------------------------------------------ C29
Identities(slots) == {r.id : r \in slots}

\* the instants a window bound is drawn from: midnight and the instant after
\* it, on the Mondays and Sundays of the period, on the day a stored trimester
\* may start late, and on the day after the last one
WindowDays == {0, 6, 7, 9, 14, MaxDay, MaxDay + 1}

WindowTicks == UNION {{parseISO(d), parseISO(d) + 1} : d \in WindowDays}

ProjectedFromStore(a, b) ==
  Range(getExpectedSlotsForRange(toArray(schedules), toArray(trimesters), toArray(groups),
                                 holidays, a, b))

CachedInWindow(a, b) ==
  {r \in placeholderSlots : a <= parseISO(r.date) /\ parseISO(r.date) <= addDays(b, 0 - 1)}

\* C29: after recomputeAllPlaceholders has completed and with nothing written
\* since, for every window a < b the identities that getExpectedSlotsForRange
\* returns on the stored schedules, trimesters, groups and holidays are the
\* identities of the cached occurrences dated d with a <= d <= b minus one day.
C29_CacheAgreesWithProjection ==
  \A p \in Procs :
    (calls[p].op = "all" /\ calls[p].pc = "done" /\ calls[p].clean) =>
      /\ \A a \in WindowTicks, b \in WindowTicks :
           a < b => Identities(ProjectedFromStore(a, b)) = Identities(CachedInWindow(a, b))
      /\ lastRead.kind = "expected" =>
           Identities(lastRead.seen) =
             Identities(CachedInWindow(parseISO(0), addDays(parseISO(MaxDay), 1)))

\* the projection was taken after a recomputeAllPlaceholders that replaced
\* stale cache entries, and some window keeps a part of the cache only
C29_Witness ==
  \E p \in Procs :
    /\ calls[p].op = "all" /\ calls[p].pc = "done" /\ calls[p].clean
    /\ calls[p].pre # placeholderSlots
    /\ lastRead.kind = "expected" /\ lastRead.seen # {}
    /\ \E a \in WindowTicks, b \in WindowTicks :
         /\ a < b
         /\ CachedInWindow(a, b) \notin {{}, placeholderSlots}
         /\ \E r \in placeholderSlots : parseISO(r.date) = b

\* --------------------------------------------- range projection harness
\* One call of getExpectedSlotsForRange on arrays and bounds drawn from the
\* value sets; the bounds are Dates (instants), not all of them midnights.
RangeBounds ==
  {parseISO(0), parseISO(7), parseISO(7) + 1, parseISO(14), parseISO(MaxDay)}

RangeInputs ==
  {[set |-> TRUE, schedules |-> ss, trimesters |-> ts, groups |-> <<G1, G2>>,
    holidays |-> hs, rangeStart |-> a, rangeEnd |-> b] :
     ss \in SeqsUpTo(ScheduleChoices, 2),
     ts \in {<<>>, <<[id |-> "t1", startDate |-> 0, endDate |-> MaxDay]>>},
     hs \in {{}, {h \in StoreHolidayChoices : h.id = "h4"}},
     a \in RangeBounds, b \in RangeBounds}

InitRange ==
  /\ StoreEmpty /\ CallsIdle /\ BuilderIdle /\ CalIdle
  /\ genInput \in RangeInputs
  /\ genOutput = [done |-> FALSE]

ProjectRangeOnInput ==
  /\ ~genOutput.done
  /\ genOutput' =
       [done |-> TRUE,
        slots |-> getExpectedSlotsForRange(genInput.schedules, genInput.trimesters,
                                           genInput.groups, genInput.holidays,
                                           genInput.rangeStart, genInput.rangeEnd),
        swapped |-> getExpectedSlotsForRange(genInput.schedules, genInput.trimesters,
                                             genInput.groups, genInput.holidays,
                                             genInput.rangeEnd, genInput.rangeStart)]
  /\ UNCHANGED <<genInput, builderVars, storeVars, callVars, calVars>>

NextRange == ProjectRangeOnInput

SpecRange == InitRange /\ [][NextRange]_vars

\* ------------------------------------------------------------ C14
\* the generator occurrences of the schedules of the list whose trimester and
\* group are in the lists
EligibleOccurrences(in) ==
  UNION {Range(computePlaceholderSlotsForSchedule(tr[1], tr[2], tr[3],
                                                  holidayWindowsOf(in.holidays))) :
           tr \in {x \in Range(in.schedules) \X Range(in.trimesters) \X Range(in.groups) :
                     x[2].id = x[1].trimesterId /\ x[3].id = x[1].groupId}}

Min(a, b) == IF a <= b THEN a ELSE b

\* C14: getExpectedSlotsForRange(.., a, b) returns exactly the generator
\* occurrences of the eligible schedules dated from lo = min(a,b) to hi, where
\* hi = lo when a = b and max(a,b) minus one day otherwise; swapping the bounds
\* gives the same result, a single-point range selects the occurrences of that
\* instant's day only, and an occurrence dated on the later bound of a
\* non-degenerate range is excluded.
C14_RangeProjection ==
  genOutput.done =>
    LET in == genInput
        lo == Min(in.rangeStart, in.rangeEnd)
        hi == IF in.rangeStart = in.rangeEnd THEN lo
              ELSE Max(in.rangeStart, in.rangeEnd) - TicksPerDay
        out == Range(genOutput.slots)
    IN /\ out = {x \in EligibleOccurrences(in) :
                   lo <= x.date * TicksPerDay /\ x.date * TicksPerDay <= hi}
       /\ genOutput.swapped = genOutput.slots
       /\ in.rangeStart = in.rangeEnd =>
            \A x \in out : x.date * TicksPerDay = in.rangeStart
       /\ in.rangeStart # in.rangeEnd =>
            \A x \in out : x.date * TicksPerDay # Max(in.rangeStart, in.rangeEnd)

\* a non-degenerate range given in reverse order that keeps some occurrences and
\* drops the one dated on its later bound
C14_Witness ==
  /\ genOutput.done /\ genInput.rangeStart > genInput.rangeEnd
  /\ genOutput.slots # <<>>
  /\ \E x \in EligibleOccurrences(genInput) :
       x.date * TicksPerDay = genInput.rangeStart /\ x \notin Range(genOutput.slots)

\* ------------------------------------------------------------ C12
\* C12: a recomputePlaceholdersForSchedule(S) that follows a completed call for
\* the same S with nothing written to the store in between or meanwhile leaves
\* the cache as the first call left it (same occurrences, one record per
\* identity, no growth) and returns the same count.
C12_RecomputeTwiceSameCache ==
  \A p \in Procs :
    LET c == calls[p]
    IN (c.op = "schedule" /\ c.pc = "done" /\ c.clean /\ c.again) =>
         /\ placeholderSlots = c.first.cache
         /\ UniqueIds(placeholderSlots)
         /\ Cardinality(placeholderSlots) = Cardinality(c.first.cache)
         /\ c.result = c.first.result

\* a second call in a row, completed, on a schedule that has cached occurrences
C12_Witness ==
  \E p \in Procs :
    LET c == calls[p]
    IN /\ c.op = "schedule" /\ c.pc = "done" /\ c.clean /\ c.again
       /\ c.result > 0
       /\ CachedFor(placeholderSlots, c.schedule.id) # {}

\* ------------------------------------------------------------ C20
\* C20: when two recomputePlaceholdersForSchedule calls on the same schedule have
\* both finished, the cached occurrences of that schedule are exactly the list
\* generated by the call whose transaction committed last, with no entry that
\* only the other call generated.
C20_LastCommitWins ==
  \A p, q \in Procs :
    LET c == calls[p]
        d == calls[q]
    IN (/\ p # q /\ c.op = "schedule" /\ d.op = "schedule"
        /\ c.schedule.id = d.schedule.id
        /\ c.pc = "done" /\ d.pc = "done" /\ c.lastCommit) =>
         /\ CachedFor(placeholderSlots, c.schedule.id) = Range(c.placeholders)
         /\ \A r \in Range(d.placeholders) :
              r \in placeholderSlots => r \in Range(c.placeholders)

\* two calls on one schedule that overlapped (each committed after the other had
\* started, no one else wrote) and generated different occurrences
C20_Witness ==
  \E p, q \in Procs :
    LET c == calls[p]
        d == calls[q]
    IN /\ p # q /\ c.op = "schedule" /\ d.op = "schedule"
       /\ c.schedule.id = d.schedule.id
       /\ c.pc = "done" /\ d.pc = "done" /\ c.lastCommit
       /\ writes = 0 /\ ~c.clean /\ ~d.clean
       /\ c.placeholders # <<>> /\ d.placeholders # <<>>
       /\ Range(c.placeholders) \cap Range(d.placeholders) = {}

\* ------------------------------------------------------------ C17
\* C17: a schedule whose trimesterId or groupId resolves to no stored record is
\* not an error and contributes nothing: recomputePlaceholdersForSchedule
\* returns 0 and leaves no cached occurrence of it; recomputeAllPlaceholders and
\* getExpectedSlotsForRange leave it out and still yield the occurrences of
\* every schedule that resolves.
C17_DanglingScheduleContributesNothing ==
  /\ \A p \in Procs :
       LET c == calls[p]
       IN /\ (c.op = "schedule" /\ c.pc = "done" /\ c.clean /\ ~Resolves(c.schedule)) =>
               /\ c.result = 0 /\ c.failedAt = ""
               /\ CachedFor(placeholderSlots, c.schedule.id) = {}
          /\ (c.op = "all" /\ c.pc = "done" /\ c.clean) =>
               /\ c.failedAt = ""
               /\ \A sc \in schedules :
                    CachedFor(placeholderSlots, sc.id) =
                      IF Resolves(sc) THEN GeneratedFromStore(sc) ELSE {}
  /\ lastRead.kind = "expected" =>
       \A sc \in schedules :
         CachedFor(lastRead.seen, sc.id) = IF Resolves(sc) THEN GeneratedFromStore(sc) ELSE {}

\* a recompute of a stored schedule whose trimester is no longer stored, which
\* cleared what had been cached for it
C17_Witness ==
  \E p \in Procs :
    LET c == calls[p]
    IN /\ c.op = "schedule" /\ c.pc = "done" /\ c.clean /\ ~Resolves(c.schedule)
       /\ c.schedule \in schedules
       /\ CachedFor(c.pre, c.schedule.id) # {}
       /\ CachedFor(placeholderSlots, c.schedule.id) = {}

\* ------------------------------------------------------------ C11
\* the cache as the running transaction of call c has it after its delete (or
\* clear) and before its bulk insert
AfterDeleteOnly(c) ==
  IF c.op = "schedule" THEN deleteWhereScheduleId(placeholderSlots, c.schedule.id)
  ELSE clearTable(placeholderSlots)

\* the part of a table a recompute call works on
ScopeOf(c, table) == IF c.op = "schedule" THEN CachedFor(table, c.schedule.id) ELSE table

C18_ReturnedCountIsCachedCount ==
  \A p \in Procs :
    LET c == calls[p]
    IN (c.pc = "done" /\ c.lastCommit) =>
         c.result = Cardinality(ScopeOf(c, placeholderSlots))

\* ------------------------------------------- schedule builder: conflicts
\* hasConflict with the overlap test closed at both ends
hasConflictClosed(sessions, candidate) ==
  LET candidateStart == toMinutes(candidate.startTime)
      candidateEnd == toMinutes(candidate.endTime)
  IN \E i \in 1..Len(sessions) :
       /\ sessions[i].dayOfWeek = candidate.dayOfWeek
       /\ candidateStart <= toMinutes(sessions[i].endTime)
       /\ candidateEnd >= toMinutes(sessions[i].startTime)

\* hasConflict that lets a candidate equal to a listed session through
hasConflictProperOverlap(sessions, candidate) ==
  LET candidateStart == toMinutes(candidate.startTime)
      candidateEnd == toMinutes(candidate.endTime)
  IN \E i \in 1..Len(sessions) :
       /\ sessions[i].dayOfWeek = candidate.dayOfWeek
       /\ candidateStart < toMinutes(sessions[i].endTime)
       /\ candidateEnd > toMinutes(sessions[i].startTime)
       /\ sessions[i] # candidate

\* hasConflict(sessions, candidate) of the schedule builder; its toMinutes is
\* the same function as the generator's
hasConflict(sessions, candidate) ==
  LET candidateStart == toMinutes(candidate.startTime)
      candidateEnd == toMinutes(candidate.endTime)
  IN \E i \in 1..Len(sessions) :
       IF sessions[i].dayOfWeek # candidate.dayOfWeek THEN FALSE
       ELSE LET start == toMinutes(sessions[i].startTime)
                end == toMinutes(sessions[i].endTime)
            IN candidateStart < end /\ candidateEnd > start

Time0830 == <<8, 30>>
Time0930 == <<9, 30>>

\* the sessions already in the builder's list: Monday and Tuesday, whole hours
ConflictListSessions ==
  {[dayOfWeek |-> d, startTime |-> a, endTime |-> b] :
     d \in {1, 2},
     a \in {Time0800, Time0900}, b \in {Time0900, Time1000}} \
  {[dayOfWeek |-> d, startTime |-> Time0900, endTime |-> Time0900] : d \in {1, 2}}

\* the candidates: any two of the five times, also end before or at start
ConflictTimes == {Time0800, Time0830, Time0900, Time0930, Time1000}

ConflictCandidates ==
  {[dayOfWeek |-> d, startTime |-> a, endTime |-> b] :
     d \in {1, 2}, a \in ConflictTimes, b \in ConflictTimes}

ConflictInputs ==
  {[set |-> TRUE, sessions |-> ss, candidate |-> c] :
     ss \in SeqsUpTo(ConflictListSessions, MaxSessions), c \in ConflictCandidates}

InitConflict ==
  /\ StoreEmpty /\ CallsIdle /\ BuilderIdle /\ CalIdle
  /\ genInput \in ConflictInputs
  /\ genOutput = [done |-> FALSE]

CheckConflict ==
  /\ ~genOutput.done
  /\ genOutput' = [done |-> TRUE,
                   conflict |-> hasConflict(genInput.sessions, genInput.candidate)]
  /\ UNCHANGED <<genInput, builderVars, storeVars, callVars, calVars>>

NextConflict == CheckConflict

SpecConflict == InitConflict /\ [][NextConflict]_vars

\* ------------------------------------------------------------ C13
\* the minutes of the day at which the sessions considered start or end
ConflictMinutes == {toMinutes(t) : t \in ConflictTimes}

\* the minutes among ConflictMinutes inside the half-open interval of session s
MinutesOf(s) ==
  {m \in ConflictMinutes : toMinutes(s.startTime) <= m /\ m < toMinutes(s.endTime)}

\* C13: hasConflict(sessions, candidate) is true exactly when some session of
\* the list has the candidate's dayOfWeek with candidateStart < end and
\* candidateEnd > start; for a candidate that ends after it starts this is
\* exactly when the two half-open intervals share a minute; a session on
\* another weekday never conflicts, and a same-day session that only touches
\* the candidate at an endpoint does not conflict.
C13_ConflictIffSameDayOverlap ==
  genOutput.done =>
    LET ss == genInput.sessions
        c == genInput.candidate
        sameDay == {i \in 1..Len(ss) : ss[i].dayOfWeek = c.dayOfWeek}
        touching == {i \in sameDay : \/ ss[i].endTime = c.startTime
                                     \/ c.endTime = ss[i].startTime}
    IN /\ genOutput.conflict <=>
            \E i \in sameDay :
              /\ toMinutes(c.startTime) < toMinutes(ss[i].endTime)
              /\ toMinutes(c.endTime) > toMinutes(ss[i].startTime)
       /\ toMinutes(c.startTime) < toMinutes(c.endTime) =>
            (genOutput.conflict <=>
               \E i \in sameDay : MinutesOf(ss[i]) \cap MinutesOf(c) # {})
       /\ sameDay = {} => ~genOutput.conflict
       /\ (toMinutes(c.startTime) < toMinutes(c.endTime) /\ sameDay = touching)
            => ~genOutput.conflict

\* Monday 08:00-09:00 is in the list next to a Tuesday session that covers the
\* candidate's hours, and the candidate Monday 09:00-10:00 is found free
C13_Witness ==
  /\ genOutput.done /\ ~genOutput.conflict
  /\ genInput.candidate = [dayOfWeek |-> 1, startTime |-> Time0900, endTime |-> Time1000]
  /\ \E i \in 1..Len(genInput.sessions) :
       genInput.sessions[i] = [dayOfWeek |-> 1, startTime |-> Time0800, endTime |-> Time0900]
  /\ \E i \in 1..Len(genInput.sessions) :
       genInput.sessions[i] = [dayOfWeek |-> 2, startTime |-> Time0800, endTime |-> Time1000]

\* ------------------------------------------------ schedule builder model
\* String.localeCompare on two times 'HH:mm' or '': negative, zero or positive
localeCompare(a, b) ==
  LET rank(t) == IF t = <<>> THEN 0 - 1 ELSE toMinutes(t)
  IN rank(a) - rank(b)

\* the comparator of sortSessions
compareSessions(a, b) ==
  IF a.dayOfWeek # b.dayOfWeek THEN a.dayOfWeek - b.dayOfWeek
  ELSE localeCompare(a.startTime, b.startTime)

\* Array.prototype.sort is stable: x goes behind the elements not after it
insertSorted(sorted, x) ==
  LET k == Cardinality({i \in DOMAIN sorted : compareSessions(sorted[i], x) <= 0})
  IN SubSeq(sorted, 1, k) \o <<x>> \o SubSeq(sorted, k + 1, Len(sorted))

RECURSIVE sortSessions(_)
sortSessions(sessions) ==
  IF sessions = <<>> THEN <<>>
  ELSE insertSorted(sortSessions(SubSeq(sessions, 1, Len(sessions) - 1)),
                    sessions[Len(sessions)])

\* the end-time test of handleAddSession with < for <=
endsBeforeStart(startTime, endTime) == toMinutes(endTime) < toMinutes(startTime)

\* toMinutes(endTime) <= toMinutes(startTime) in handleAddSession
endsBeforeOrAtStart(startTime, endTime) == toMinutes(endTime) <= toMinutes(startTime)

\* the activeSchedule memo: the schedule held for the selection, if any
activeSchedule(b) ==
  IF b.selectedTrimesterId = "" \/ b.selectedGroupId = "" THEN {}
  ELSE {sc \in b.schedules : sc.trimesterId = b.selectedTrimesterId
                             /\ sc.groupId = b.selectedGroupId}

\* the effect on [activeSchedule]: the draft follows the active schedule and the
\* feedback is cleared
afterActiveScheduleChange(b) ==
  [b EXCEPT !.draftSessions =
              IF activeSchedule(b) # {}
                THEN sortSessions((CHOOSE sc \in activeSchedule(b) : TRUE).sessions)
                ELSE <<>>,
            !.feedback = "none"]

\* values of the two <input type="time">: '' or HH:mm
BuilderTimes == {<<>>, Time0800, Time0900}

\* what one change event of the form sets
FormUpdates ==
  {<<"dayOfWeek", d>> : d \in {1, 2}} \cup
  {<<"startTime", t>> : t \in BuilderTimes} \cup {<<"endTime", t>> : t \in BuilderTimes}

\* a stored schedule of group g1 in trimester t1: none, one Monday session that
\* starts when the form's initial session ends, or one Monday session twice
BuilderStoredSessions ==
  {<<>>, <<[dayOfWeek |-> 1, startTime |-> Time0900, endTime |-> Time1000]>>,
   <<[dayOfWeek |-> 1, startTime |-> Time0800, endTime |-> Time1000],
     [dayOfWeek |-> 1, startTime |-> Time0800, endTime |-> Time1000]>>}

BuilderSchedule(sessions) ==
  [id |-> "s1", groupId |-> "g1", trimesterId |-> "t1", sessions |-> sessions]

InitBuilder ==
  /\ trimesters = {[id |-> "t1", startDate |-> 0, endDate |-> MaxDay]}
  /\ groups = {G1}
  /\ holidays = {}
  /\ \E stored \in BuilderStoredSessions :
       /\ schedules = IF stored = <<>> THEN {} ELSE {BuilderSchedule(stored)}
       /\ placeholderSlots =
            Range(computePlaceholderSlotsForSchedule(
                    BuilderSchedule(stored),
                    [id |-> "t1", startDate |-> 0, endDate |-> MaxDay], G1, {}))
  /\ CallsIdle /\ GenIdle /\ BuilderIdle /\ CalIdle

\* loadData resolves (lines 82-98), then the selection effects (104-124) pick
\* the first trimester and the first group of the first level, and the effect
\* on [activeSchedule] (136-143) runs when a schedule is found for them
LoadData ==
  /\ builder.pc = "loading"
  /\ LET firstTrimester ==
           {t \in trimesters : \A o \in trimesters : t.startDate <= o.startDate}
         groupsForLevel == {g \in groups : g.levelId = "L1"}
         loaded == [builder EXCEPT
                      !.pc = "ready",
                      !.schedules = schedules,
                      !.selectedTrimesterId =
                        IF firstTrimester = {} THEN ""
                        ELSE (CHOOSE t \in firstTrimester : TRUE).id,
                      !.selectedGroupId =
                        IF groupsForLevel = {} THEN ""
                        ELSE (CHOOSE g \in groupsForLevel : TRUE).id]
     IN builder' = IF activeSchedule(loaded) # {}
                     THEN afterActiveScheduleChange(loaded) ELSE loaded
  /\ builderLast' = [NoHandler EXCEPT !.handler = "load", !.ok = TRUE]
  /\ UNCHANGED <<storeVars, callVars, genVars, calVars>>

\* lines 164-166
HandleSessionFormChange(update) ==
  /\ builder.sessionForm[update[1]] # update[2]
  /\ builder' = [builder EXCEPT !.sessionForm[update[1]] = update[2]]
  /\ builderLast' = [NoHandler EXCEPT !.handler = "form", !.ok = TRUE]
  /\ UNCHANGED <<storeVars, callVars, genVars, calVars>>

\* lines 168-195
HandleAddSession ==
  LET form == builder.sessionForm
      rejected ==
        \/ builder.selectedGroupId = "" \/ builder.selectedTrimesterId = ""
        \/ form.startTime = <<>> \/ form.endTime = <<>>
        \/ endsBeforeOrAtStart(form.startTime, form.endTime)
        \/ hasConflict(builder.draftSessions, form)
  IN /\ builder' =
          IF rejected THEN [builder EXCEPT !.feedback = "error"]
          ELSE [builder EXCEPT
                  !.draftSessions = sortSessions(Append(builder.draftSessions, form)),
                  !.feedback = "success",
                  !.sessionForm = INITIAL_SESSION]
     /\ builderLast' = [handler |-> "add", ok |-> ~rejected,
                        before |-> builder.draftSessions, session |-> form]
     /\ UNCHANGED <<storeVars, callVars, genVars, calVars>>

\* lines 197-200
HandleRemoveSession(index) ==
  /\ index \in DOMAIN builder.draftSessions
  /\ builder' = [builder EXCEPT
                   !.draftSessions =
                     SubSeq(builder.draftSessions, 1, index - 1) \o
                     SubSeq(builder.draftSessions, index + 1, Len(builder.draftSessions)),
                   !.feedback = "none"]
  /\ builderLast' = [NoHandler EXCEPT !.handler = "remove", !.ok = TRUE]
  /\ UNCHANGED <<storeVars, callVars, genVars, calVars>>

\* lines 202-210
HandleRestore ==
  /\ builder' = [afterActiveScheduleChange(builder) EXCEPT !.feedback = "success"]
  /\ builderLast' = [NoHandler EXCEPT !.handler = "restore", !.ok = TRUE]
  /\ UNCHANGED <<storeVars, callVars, genVars, calVars>>

\* lines 212-240, from the click to the end of the finally block and the
\* effects of the render that follows; saved tells whether DataStore.save and
\* DataStore.getAll resolved. crypto.randomUUID() is "s1" here. The button is
\* disabled while the component holds no trimester, level or group (line 272).
HandleSaveSchedule(saved) ==
  /\ builder.pc = "ready" /\ ~builder.isSaving
  /\ LET active == activeSchedule(builder)
         payload == [id |-> IF active # {} THEN (CHOOSE sc \in active : TRUE).id ELSE "s1",
                     trimesterId |-> builder.selectedTrimesterId,
                     groupId |-> builder.selectedGroupId,
                     sessions |-> sortSessions(builder.draftSessions)]
     IN IF builder.selectedTrimesterId = "" \/ builder.selectedGroupId = ""
          THEN /\ ~saved
               /\ builder' = [builder EXCEPT !.feedback = "error"]
               /\ builderLast' = [NoHandler EXCEPT !.handler = "save"]
               /\ UNCHANGED <<storeVars, callVars, genVars, calVars>>
          ELSE IF saved
            THEN /\ schedules' = putRecord(schedules, payload)
                 /\ builder' = afterActiveScheduleChange(
                                 [builder EXCEPT !.schedules = schedules'])
                 /\ builderLast' = [NoHandler EXCEPT !.handler = "save", !.ok = TRUE]
                 /\ UNCHANGED <<trimesters, groups, holidays, placeholderSlots,
                                callVars, genVars, calVars>>
            ELSE /\ builder' = [builder EXCEPT !.feedback = "error"]
                 /\ builderLast' = [NoHandler EXCEPT !.handler = "save"]
                 /\ UNCHANGED <<storeVars, callVars, genVars, calVars>>

NextBuilder ==
  \/ LoadData
  \/ \E update \in FormUpdates : HandleSessionFormChange(update)
  \/ HandleAddSession
  \/ \E index \in DOMAIN builder.draftSessions : HandleRemoveSession(index)
  \/ HandleRestore
  \/ \E saved \in BOOLEAN : HandleSaveSchedule(saved)

SpecBuilder == InitBuilder /\ [][NextBuilder]_vars

\* ------------------------------------------------------------ C23
\* C23: right after an add-session action was accepted, hasConflict(draft,
\* thatSession) is true; submitting a session that is already in the draft and
\* ends after it starts is rejected and leaves the draft unchanged.
C23_AddedSessionConflictsWithItself ==
  builderLast.handler = "add" =>
    /\ builderLast.ok => hasConflict(builder.draftSessions, builderLast.session)
    /\ (\E i \in DOMAIN builderLast.before :
          /\ builderLast.before[i] = builderLast.session
          /\ toMinutes(builderLast.session.endTime) > toMinutes(builderLast.session.startTime))
         => /\ ~builderLast.ok
            /\ builder.draftSessions = builderLast.before
            /\ builder.feedback = "error"

\* no schedule was ever stored, so the draft holds accepted sessions only, and
\* one of them was submitted again and rejected
C23_Witness ==
  /\ builderLast.handler = "add" /\ ~builderLast.ok
  /\ builder.schedules = {} /\ builder.pc = "ready"
  /\ \E i \in DOMAIN builderLast.before : builderLast.before[i] = builderLast.session
  /\ Len(builder.draftSessions) >= 2

\* ------------------------------------------------------------ C24
\* no two sessions of the list share a weekday with overlapping intervals and
\* every session ends after it starts
ConflictFree(sessions) ==
  /\ \A i \in DOMAIN sessions :
       /\ Len(sessions[i].startTime) = 2 /\ Len(sessions[i].endTime) = 2
       /\ toMinutes(sessions[i].endTime) > toMinutes(sessions[i].startTime)
  /\ \A i, j \in DOMAIN sessions :
       (i # j /\ sessions[i].dayOfWeek = sessions[j].dayOfWeek) =>
         \/ toMinutes(sessions[i].endTime) <= toMinutes(sessions[j].startTime)
         \/ toMinutes(sessions[j].endTime) <= toMinutes(sessions[i].startTime)

C25_SaveRecomputesCache ==
  (builderLast.handler = "save" /\ builderLast.ok) =>
    \A sc \in activeSchedule(builder) :
      CachedFor(placeholderSlots, sc.id) = GeneratedFromStore(sc)

\* ------------------------------------------------------------ C15
\* the spellings, among the strings used, of one name: equal after removing
\* surrounding blanks and lower-casing
Spellings ==
  {{" All ", "ALL", "all"}, {"G1", " g1", "g1"}, {"7A", "7a"}, {"7B", "7b"},
   {"L1", "l1"}, {"L2", "l2"}}

SameName(a, b) == a = b \/ \E names \in Spellings : a \in names /\ b \in names

\* the holiday's scope names everyone, or the group by id, display name or level
ScopeNames(h, group) ==
  \E target \in h.affectsGroups :
    \/ SameName(target, "all")
    \/ SameName(target, group.id)
    \/ SameName(target, group.displayName)
    \/ SameName(target, group.levelId)

ValidHoliday(h) ==
  ValidDateStr(h.startDate) /\ ValidDateStr(h.endDate) /\ h.startDate <= h.endDate

\* the generator output for the run's inputs with the holiday list hs
SlotsWithHolidays(hs) ==
  computePlaceholderSlotsForSchedule(genInput.schedule, genInput.trimester,
                                     genInput.group, holidayWindowsOf(hs))

\* C15: a holiday with a valid window blocks dates for the group exactly when
\* its scope, trimmed and lower-cased, contains 'all' or the group's trimmed,
\* lower-cased id, display name or level id: then no emitted occurrence lies in
\* its window; otherwise the output is what it is without that holiday.
C15_HolidayScope ==
  (genOutput.done /\ ValidPeriod(genInput.trimester)) =>
    \A h \in genInput.holidays :
      ValidHoliday(h) =>
        /\ holidayCoversGroup(mapHolidayToWindow(h), genInput.group)
             <=> ScopeNames(h, genInput.group)
        /\ ScopeNames(h, genInput.group) =>
             \A k \in DOMAIN genOutput.slots :
               ~(h.startDate <= genOutput.slots[k].date /\ genOutput.slots[k].date <= h.endDate)
        /\ ~ScopeNames(h, genInput.group) =>
             genOutput.slots = SlotsWithHolidays(genInput.holidays \ {h})

\* a run with two valid holidays whose windows both hold a date of the
\* schedule: one scoped by a name of the group other than its id removed that
\* date, the other, scoped to other groups only, removed nothing
C15_Witness ==
  /\ genOutput.done /\ ValidPeriod(genInput.trimester)
  /\ \E h, o \in genInput.holidays :
       /\ ValidHoliday(h) /\ ValidHoliday(o)
       /\ ScopeNames(h, genInput.group) /\ ~ScopeNames(o, genInput.group)
       /\ \A target \in h.affectsGroups :
            ~SameName(target, "all") /\ ~SameName(target, genInput.group.id)
       /\ Len(genOutput.slots) < Len(SlotsWithHolidays(genInput.holidays \ {h}))
       /\ \E k \in DOMAIN genOutput.slots :
            o.startDate <= genOutput.slots[k].date /\ genOutput.slots[k].date <= o.endDate

\* ------------------------------------------------------------ C16
\* C16: invalid date ranges contribute nothing and the generator still returns
\* a list: with a trimester whose end date is before its start date, or whose
\* dates do not parse, the list is empty whatever the schedule; a holiday whose
\* end date is before its start date, or whose dates do not parse, blocks no
\* date: the output is the output without that holiday.
C16_InvalidRangesContributeNothing ==
  genOutput.done =>
    /\ ~ValidPeriod(genInput.trimester) => genOutput.slots = <<>>
    /\ \A h \in genInput.holidays :
         ~ValidHoliday(h) => genOutput.slots = SlotsWithHolidays(genInput.holidays \ {h})

\* a run in a valid trimester with one holiday whose range is inverted and one
\* whose start does not parse, both scoped to everyone, that emitted occurrences
\* between the ends of the first and before the end of the second
C16_Witness ==
  /\ genOutput.done /\ ValidPeriod(genInput.trimester)
  /\ \E h, u \in genInput.holidays :
       /\ ValidDateStr(h.startDate) /\ ValidDateStr(h.endDate) /\ h.endDate < h.startDate
       /\ ~ValidDateStr(u.startDate) /\ ValidDateStr(u.endDate)
       /\ ScopeNames(h, genInput.group) /\ ScopeNames(u, genInput.group)
       /\ \E k \in DOMAIN genOutput.slots :
            h.endDate <= genOutput.slots[k].date /\ genOutput.slots[k].date <= h.startDate
       /\ \E k \in DOMAIN genOutput.slots : genOutput.slots[k].date <= u.endDate

\* ------------------------------------------------------------ C21
\* whole days from the first to the last day of the period
daysInPeriod(trimester) == trimester.endDate - trimester.startDate

firstOccurrenceOffset(session, trimester) ==
  (session.dayOfWeek - IsoWeekday(trimester.startDate) + 7) % 7

\* C21: with no holidays, for a valid period and a session of positive duration
\* with dayOfWeek in 1..7, the number of occurrences generated for the session
\* is floor((daysInPeriod - firstOccurrenceOffset) / 7) + 1 when daysInPeriod -
\* firstOccurrenceOffset is not negative and 0 otherwise, daysInPeriod being the
\* days from the start date to the end date and firstOccurrenceOffset =
\* (dayOfWeek - weekday(start) + 7) mod 7, which lies in 0..6.
C21_OccurrenceCount ==
  (genOutput.done /\ ValidPeriod(genInput.trimester) /\ genInput.holidays = {}) =>
    \A i \in DOMAIN genInput.schedule.sessions :
      LET session == genInput.schedule.sessions[i]
          left == daysInPeriod(genInput.trimester)
                    - firstOccurrenceOffset(session, genInput.trimester)
      IN (PositiveDuration(session) /\ session.dayOfWeek \in 1..7) =>
           /\ firstOccurrenceOffset(session, genInput.trimester) \in 0..6
           /\ Len(genOutput.perSession[i]) = IF left >= 0 THEN (left \div 7) + 1 ELSE 0

\* a run without holidays where one session starts later than the period's
\* first day and recurs, and another falls on the first day
C21_Witness ==
  /\ genOutput.done /\ ValidPeriod(genInput.trimester) /\ genInput.holidays = {}
  /\ \E i, j \in DOMAIN genInput.schedule.sessions :
       /\ PositiveDuration(genInput.schedule.sessions[i])
       /\ firstOccurrenceOffset(genInput.schedule.sessions[i], genInput.trimester) > 0
       /\ Len(genOutput.perSession[i]) >= 2
       /\ PositiveDuration(genInput.schedule.sessions[j])
       /\ firstOccurrenceOffset(genInput.schedule.sessions[j], genInput.trimester) = 0
       /\ Len(genOutput.perSession[j]) >= 2

\* ------------------------------------------------------------ C22
\* C22: a session whose end time is not after its start time produces no
\* occurrence, and every occurrence emitted carries durationMinutes equal to
\* toMinutes(endTime) - toMinutes(startTime), which is strictly positive.
C22_DurationPositive ==
  genOutput.done =>
    /\ \A i \in DOMAIN genInput.schedule.sessions :
         ~PositiveDuration(genInput.schedule.sessions[i]) => genOutput.perSession[i] = <<>>
    /\ \A k \in DOMAIN genOutput.slots :
         LET slot == genOutput.slots[k]
         IN /\ ~IsNaN(slot.durationMinutes)
            /\ slot.durationMinutes = toMinutes(slot.endTime) - toMinutes(slot.startTime)
            /\ slot.durationMinutes > 0

\* ------------------------------------------------------- calendar view
RANGE_PADDING_DAYS == 7

LESSON_STATUS_OPTIONS == {"draft", "planned", "in_progress", "completed", "cancelled"}

\* the visible windows FullCalendar reports, as <<start day, end day>> (end exclusive)
CalWindows == {<<10, 11>>, <<7, 14>>, <<14, 21>>}

\* the statuses the user toggles
ToggleStatuses == {"planned"}

StoredLevels == {[id |-> "L1"], [id |-> "L2"]}

Slot(scheduleId, groupId, date, startTime, endTime) ==
  [id |-> <<scheduleId, date, startTime, endTime>>, scheduleId |-> scheduleId,
   groupId |-> groupId, trimesterId |-> "t1", date |-> date, dayOfWeek |-> IsoWeekday(date),
   startTime |-> startTime, endTime |-> endTime,
   durationMinutes |-> toMinutes(endTime) - toMinutes(startTime), source |-> "schedule"]

Lesson(id, groupId, date, startTime, endTime, status) ==
  [id |-> id, groupId |-> groupId, trimesterId |-> "t1", date |-> date,
   startTime |-> startTime, endTime |-> endTime, status |-> status]

StoredSlots ==
  {Slot("s1", "g1", 7, Time0800, Time0900), Slot("s1", "g1", 14, Time0800, Time0900),
   Slot("s2", "g2", 27, Time0800, Time1000)}

StoredLessonChoices ==
  {{Lesson("l1", "g1", 14, Time0800, Time0900, "planned"),
    Lesson("l3", "g2", 20, Time0900, Time1000, "draft")},
   {Lesson("l1", "g1", 14, Time0800, Time0900, "planned"),
    Lesson("l2", "g1", 14, Time0800, Time0900, "draft")}}

NoRange == [set |-> FALSE, start |-> 0, end |-> 0]

\* DataStore.getInDateRange(collection, start, end): the records dated in [start, end]
getInDateRange(table, start, end) == {r \in table : r.date >= start /\ r.date <= end}

\* lines 700-706: the padded range of a visible window; it is also the request key
paddedRange(startInput, endInput) ==
  LET rangeStart == IF startInput <= endInput THEN startInput ELSE endInput
      rangeEnd == IF startInput <= endInput THEN endInput ELSE startInput
      inclusiveEnd == IF rangeEnd = rangeStart THEN rangeEnd ELSE addDays(rangeEnd, 0 - 1)
      paddedStart == formatDate(addDays(rangeStart, 0 - RANGE_PADDING_DAYS))
      paddedEnd == formatDate(addDays(inclusiveEnd, RANGE_PADDING_DAYS))
  IN <<paddedStart, paddedEnd>>

\* mutant: a request is never taken as contained
neverContained(previous, paddedStart, paddedEnd) == FALSE

\* line 709
isContained(previous, paddedStart, paddedEnd) ==
  previous.set /\ paddedStart >= previous.start /\ paddedEnd <= previous.end

\* mutant: the in-flight keys are not consulted
neverInFlight(keys, rangeKey) == FALSE

\* line 716
alreadyInFlight(keys, rangeKey) == rangeKey \in keys

\* mutant: a response is applied whatever the latest request is
alwaysApply(latest, rangeKey) == TRUE

\* line 732
shouldApplyResult(latest, rangeKey) == latest = rangeKey

\* line 742
shouldReportFailure(latest, rangeKey) == latest = rangeKey

\* mutant: a failure keeps the held lessons and placeholders
keepHeldData(current) == current

\* lines 745-749
clearHeldData(current) == [current EXCEPT !.lessons = {}, !.placeholders = {}]

\* mutant: a failure records the failed range as fetched
failedRangeRecorded(previous, rangeKey) == [set |-> TRUE, start |-> rangeKey[1], end |-> rangeKey[2]]

\* the catch block does not assign lastPrefetchedRange
rangeAfterFailure(previous, rangeKey) == previous

identityKey(r) == <<r.groupId, r.date, r.startTime, r.endTime>>

\* lines 448-454: toDateTime, for well-formed 'HH:mm' times
toDateTime(date, time) == <<date, time[1], time[2], 0>>

\* createLessonEvents that leaves draft lessons out
createLessonEventsWithoutDrafts(lessonList) ==
  [events |-> {[id |-> <<"lesson", lesson.id>>, kind |-> "lesson",
                start |-> toDateTime(lesson.date, lesson.startTime),
                end |-> toDateTime(lesson.date, lesson.endTime),
                groupId |-> lesson.groupId, status |-> lesson.status] :
                 lesson \in {l \in lessonList : l.status # "draft"}},
   lessonKeys |-> {identityKey(lesson) : lesson \in lessonList}]

\* lines 539-585
createLessonEvents(lessonList) ==
  [events |-> {[id |-> <<"lesson", lesson.id>>, kind |-> "lesson",
                start |-> toDateTime(lesson.date, lesson.startTime),
                end |-> toDateTime(lesson.date, lesson.endTime),
                groupId |-> lesson.groupId, status |-> lesson.status] : lesson \in lessonList},
   lessonKeys |-> {identityKey(lesson) : lesson \in lessonList}]

\* mutant: placeholders are rendered whether or not a lesson has their key
createPlaceholderEventsNoDedup(placeholderList, existingLessonKeys) ==
  {[id |-> <<"placeholder", slot.id>>, kind |-> "placeholder",
    start |-> toDateTime(slot.date, slot.startTime),
    end |-> toDateTime(slot.date, slot.endTime),
    groupId |-> slot.groupId, status |-> ""] : slot \in placeholderList}

\* lines 587-627
createPlaceholderEvents(placeholderList, existingLessonKeys) ==
  {[id |-> <<"placeholder", slot.id>>, kind |-> "placeholder",
    start |-> toDateTime(slot.date, slot.startTime),
    end |-> toDateTime(slot.date, slot.endTime),
    groupId |-> slot.groupId, status |-> ""] :
     slot \in {x \in placeholderList : identityKey(x) \notin existingLessonKeys}}

\* lines 1056-1129: the events handed to FullCalendar
filteredEvents ==
  LET groupOf(id) == {g \in calendarData.groups : g.id = id}
      activeStatuses == selectedStatuses
      passes(r) ==
        /\ ~(selectedTrimesterId # "all" /\ r.trimesterId # selectedTrimesterId)
        /\ ~(selectedGroupId # "all" /\ r.groupId # selectedGroupId)
        /\ groupOf(r.groupId) # {}
        /\ ~(selectedLevelId # "all" /\
             (CHOOSE g \in groupOf(r.groupId) : TRUE).levelId # selectedLevelId)
      lessonsMatchingFilters ==
        {lesson \in calendarData.lessons :
           /\ passes(lesson)
           /\ ~(Cardinality(activeStatuses) > 0 /\ lesson.status \notin activeStatuses)}
      lessonEvents == createLessonEvents(lessonsMatchingFilters).events
      lessonKeys == createLessonEvents(calendarData.lessons).lessonKeys
      placeholdersMatchingFilters == {slot \in calendarData.placeholders : passes(slot)}
      placeholderEvents == createPlaceholderEvents(placeholdersMatchingFilters, lessonKeys)
  IN lessonEvents \cup placeholderEvents

\* the component mounts: useState/useRef initial values (lines 630-661), the
\* mount effect has called loadStaticCollections (lines 833-835)
InitCal ==
  /\ trimesters = {[id |-> "t1", startDate |-> 0, endDate |-> MaxDay]}
  /\ groups = {G1, G2}
  /\ holidays = {} /\ schedules = {}
  /\ placeholderSlots = StoredSlots
  /\ lessons \in StoredLessonChoices
  /\ CallsIdle /\ GenIdle /\ BuilderIdle
  /\ calendarData = [trimesters |-> {}, levels |-> {}, groups |-> {}, lessons |-> {},
                     placeholders |-> {}]
  /\ selectedTrimesterId = "all" /\ selectedLevelId = "all" /\ selectedGroupId = "all"
  /\ selectedStatuses = LESSON_STATUS_OPTIONS
  /\ isBaseLoading = TRUE /\ isRangeLoading = TRUE
  /\ baseError = FALSE /\ rangeError = FALSE
  /\ lastPrefetchedRange = NoRange /\ latestRequestedRange = <<>> /\ inFlightRangeKeys = {}
  /\ staticLoad = "loading" /\ fetches = {}
  /\ lastEvent = [NoEvent EXCEPT !.kind = "mount"]
  /\ navigation = "moving"

\* lines 667-682, 693-695
StaticLoadResolve ==
  /\ staticLoad = "loading"
  /\ staticLoad' = "done"
  /\ calendarData' = [calendarData EXCEPT !.trimesters = trimesters, !.groups = groups,
                                          !.levels = StoredLevels]
  /\ baseError' = FALSE /\ isBaseLoading' = FALSE
  /\ lastEvent' = [NoEvent EXCEPT !.kind = "static"]
  /\ UNCHANGED <<storeVars, callVars, genVars, builderVars, lessons, navigation, filterVars, isRangeLoading, rangeError,
                 refVars, fetches>>

\* lines 683-695
StaticLoadReject ==
  /\ staticLoad = "loading"
  /\ staticLoad' = "failed"
  /\ calendarData' = [calendarData EXCEPT !.trimesters = {}, !.groups = {}, !.levels = {}]
  /\ baseError' = TRUE /\ isBaseLoading' = FALSE
  /\ lastEvent' = [NoEvent EXCEPT !.kind = "static"]
  /\ UNCHANGED <<storeVars, callVars, genVars, builderVars, lessons, navigation, filterVars, isRangeLoading, rangeError,
                 refVars, fetches>>

\* handleDatesSet (lines 761-769) and the synchronous part of prefetchRange
\* (lines 700-724)
HandleDatesSet(w) ==
  LET padded == paddedRange(parseISO(w[1]), parseISO(w[2]))
      paddedStart == padded[1]
      paddedEnd == padded[2]
      rangeKey == padded
      previous == lastPrefetchedRange
  IN /\ latestRequestedRange' = rangeKey
     /\ IF isContained(previous, paddedStart, paddedEnd)
          THEN /\ rangeError' = FALSE /\ isRangeLoading' = FALSE
               /\ lastEvent' = [kind |-> "request", key |-> rangeKey, window |-> w,
                                branch |-> "contained"]
               /\ UNCHANGED <<inFlightRangeKeys, fetches>>
          ELSE IF alreadyInFlight(inFlightRangeKeys, rangeKey)
            THEN /\ fetches' = {IF f.key = rangeKey THEN [f EXCEPT !.rerequested = TRUE] ELSE f :
                                  f \in fetches}
                 /\ lastEvent' = [kind |-> "request", key |-> rangeKey, window |-> w,
                                  branch |-> "deduped"]
                 /\ UNCHANGED <<inFlightRangeKeys, rangeError, isRangeLoading>>
            ELSE /\ inFlightRangeKeys' = inFlightRangeKeys \cup {rangeKey}
                 /\ isRangeLoading' = TRUE /\ rangeError' = FALSE
                 /\ fetches' = fetches \cup
                      {[key |-> rangeKey, previous |-> previous, rerequested |-> FALSE,
                        n |-> Cardinality({f \in fetches : f.key = rangeKey})]}
                 /\ lastEvent' = [kind |-> "request", key |-> rangeKey, window |-> w,
                                  branch |-> "fetched"]
     /\ UNCHANGED <<storeVars, callVars, genVars, builderVars, lessons, navigation, calendarData, filterVars,
                    isBaseLoading, baseError, lastPrefetchedRange, staticLoad>>

\* both reads of a range fetch resolve: lines 727-740 and 751-756
FetchResolve(f) ==
  /\ f \in fetches
  /\ fetches' = fetches \ {f}
  /\ IF shouldApplyResult(latestRequestedRange, f.key)
       THEN /\ calendarData' =
                 [calendarData EXCEPT
                    !.lessons = getInDateRange(lessons, f.key[1], f.key[2]),
                    !.placeholders = getInDateRange(placeholderSlots, f.key[1], f.key[2])]
            /\ lastPrefetchedRange' = [set |-> TRUE, start |-> f.key[1], end |-> f.key[2]]
            /\ rangeError' = FALSE
       ELSE UNCHANGED <<calendarData, lastPrefetchedRange, rangeError>>
  /\ inFlightRangeKeys' = inFlightRangeKeys \ {f.key}
  /\ isRangeLoading' = IF latestRequestedRange = f.key THEN FALSE ELSE isRangeLoading
  /\ lastEvent' = [kind |-> "resolved", key |-> f.key, window |-> <<>>,
                   branch |-> IF f.rerequested THEN "rerequested" ELSE ""]
  /\ UNCHANGED <<storeVars, callVars, genVars, builderVars, lessons, navigation, filterVars, isBaseLoading, baseError,
                 latestRequestedRange, staticLoad>>

\* a read of a range fetch rejects: lines 741-756
FetchReject(f) ==
  /\ f \in fetches
  /\ fetches' = fetches \ {f}
  /\ IF shouldReportFailure(latestRequestedRange, f.key)
       THEN /\ rangeError' = TRUE
            /\ calendarData' = clearHeldData(calendarData)
       ELSE UNCHANGED <<calendarData, rangeError>>
  /\ lastPrefetchedRange' = rangeAfterFailure(lastPrefetchedRange, f.key)
  /\ inFlightRangeKeys' = inFlightRangeKeys \ {f.key}
  /\ isRangeLoading' = IF latestRequestedRange = f.key THEN FALSE ELSE isRangeLoading
  /\ lastEvent' = [kind |-> "rejected", key |-> f.key, window |-> <<>>,
                   branch |-> IF f.previous = lastPrefetchedRange THEN "same" ELSE "moved"]
  /\ UNCHANGED <<storeVars, callVars, genVars, builderVars, lessons, navigation, filterVars, isBaseLoading, baseError,
                 latestRequestedRange, staticLoad>>

\* lines 794-796; the select offers 'all' and the loaded trimesters (lines 953-962)
HandleTrimesterChange(value) ==
  /\ value \in {"all"} \cup {t.id : t \in calendarData.trimesters}
  /\ value # selectedTrimesterId
  /\ selectedTrimesterId' = value
  /\ lastEvent' = [NoEvent EXCEPT !.kind = "filter"]
  /\ UNCHANGED <<storeVars, callVars, genVars, builderVars, lessons, navigation, calendarData, selectedLevelId,
                 selectedGroupId, selectedStatuses, isBaseLoading, isRangeLoading, baseError,
                 rangeError, refVars, staticLoad, fetches>>

\* lines 798-800, and the effect of lines 859-873 that resets a group outside the level
HandleLevelChange(value) ==
  /\ value \in {"all"} \cup {l.id : l \in calendarData.levels}
  /\ value # selectedLevelId
  /\ selectedLevelId' = value
  /\ selectedGroupId' =
       IF selectedGroupId # "all" /\ value # "all" /\
          \E g \in calendarData.groups : g.id = selectedGroupId /\ g.levelId # value
         THEN "all" ELSE selectedGroupId
  /\ lastEvent' = [NoEvent EXCEPT !.kind = "filter"]
  /\ UNCHANGED <<storeVars, callVars, genVars, builderVars, lessons, navigation, calendarData, selectedTrimesterId,
                 selectedStatuses, isBaseLoading, isRangeLoading, baseError,
                 rangeError, refVars, staticLoad, fetches>>

\* lines 802-804; the select offers 'all' and the groups of the level (lines 975-985)
HandleGroupChange(value) ==
  /\ value \in {"all"} \cup
       {g.id : g \in {x \in calendarData.groups :
                        selectedLevelId = "all" \/ x.levelId = selectedLevelId}}
  /\ value # selectedGroupId
  /\ selectedGroupId' = value
  /\ lastEvent' = [NoEvent EXCEPT !.kind = "filter"]
  /\ UNCHANGED <<storeVars, callVars, genVars, builderVars, lessons, navigation, calendarData, selectedTrimesterId,
                 selectedLevelId, selectedStatuses, isBaseLoading, isRangeLoading, baseError,
                 rangeError, refVars, staticLoad, fetches>>

\* lines 806-814
HandleStatusToggle(status) ==
  /\ selectedStatuses' = IF status \in selectedStatuses
                           THEN selectedStatuses \ {status}
                           ELSE selectedStatuses \cup {status}
  /\ lastEvent' = [NoEvent EXCEPT !.kind = "filter"]
  /\ UNCHANGED <<storeVars, callVars, genVars, builderVars, lessons, navigation, calendarData, selectedTrimesterId,
                 selectedLevelId, selectedGroupId, isBaseLoading, isRangeLoading, baseError,
                 rangeError, refVars, staticLoad, fetches>>

NextCal ==
  \/ StaticLoadResolve
  \/ StaticLoadReject
  \/ \E w \in CalWindows : HandleDatesSet(w)
  \/ \E f \in fetches : FetchResolve(f)
  \/ \E f \in fetches : FetchReject(f)
  \/ \E value \in {"all", "t1"} : HandleTrimesterChange(value)
  \/ \E value \in {"all", "L2"} : HandleLevelChange(value)
  \/ \E value \in {"all", "g1"} : HandleGroupChange(value)
  \/ \E status \in ToggleStatuses : HandleStatusToggle(status)

SpecCal == InitCal /\ [][NextCal]_vars

\* -------------------------------------------- calendar view, settling
\* The same component with the filters left alone, followed until the user
\* stops moving the visible window; from then on the store answers every
\* pending read.

\* FullCalendar reports a new visible window (datesSet) while the user navigates
Navigate(w) == navigation = "moving" /\ HandleDatesSet(w)

\* a read of a range fetch rejects while the user still navigates
FetchFails(f) == navigation = "moving" /\ FetchReject(f)

\* the window just reported is the last one: the user leaves the calendar on it
StopNavigating ==
  /\ navigation = "moving" /\ lastEvent.kind = "request"
  /\ navigation' = "stopped"
  /\ UNCHANGED <<storeVars, callVars, genVars, builderVars, lessons, viewVars, refVars,
                 staticLoad, fetches, lastEvent>>

NextCalSettle ==
  \/ StaticLoadResolve
  \/ StaticLoadReject
  \/ \E w \in CalWindows : Navigate(w)
  \/ \E f \in fetches : FetchResolve(f)
  \/ \E f \in fetches : FetchFails(f)
  \/ StopNavigating

\* a pending promise of the store settles: no range fetch stays in flight forever
FetchSettles == \E f \in fetches : FetchResolve(f) \/ FetchFails(f)

SpecCalSettle == InitCal /\ [][NextCalSettle]_vars /\ WF_vars(FetchSettles)

TypeCal == inFlightRangeKeys = {f.key : f \in fetches}

\* ------------------------------------------------------------ C30
\* the fetching has come to rest on the last requested window
RangeSettled ==
  /\ fetches = {} /\ inFlightRangeKeys = {}
  /\ ~isRangeLoading
  /\ lastPrefetchedRange.set
  /\ lastPrefetchedRange.start <= latestRequestedRange[1]
  /\ latestRequestedRange[2] <= lastPrefetchedRange.end

\* C30: whatever windows were requested and in whatever order the fetches
\* completed, once the window stops changing and every fetch still in flight
\* completes successfully, eventually no fetch is in flight, the range-loading
\* flag is false and lastPrefetchedRange contains the padded range of the last
\* requested window.
C30_SettlesOnLastWindow == (navigation = "stopped") ~> RangeSettled

\* the calendar came to rest by a fetch that completed after the user stopped,
\* on a window other than the one whose fetch was started first
C30_Witness ==
  /\ navigation = "stopped" /\ RangeSettled
  /\ lastEvent.kind = "resolved"
  /\ lastEvent.key # latestRequestedRange

\* ------------------------------------------------------------ C4
eventKey(e) == <<e.groupId, e.start[1], <<e.start[2], e.start[3]>>, <<e.end[2], e.end[3]>>>>

EventsAt(key) == {e \in filteredEvents : eventKey(e) = key}

\* the keys a held Lesson and a held placeholder share
SharedKeys ==
  {identityKey(l) : l \in calendarData.lessons} \cap
  {identityKey(x) : x \in calendarData.placeholders}

\* the lesson passes the trimester, group, level and status filters and its
\* group is among the loaded groups
LessonShown(l) ==
  /\ selectedTrimesterId \in {"all", l.trimesterId}
  /\ selectedGroupId \in {"all", l.groupId}
  /\ \E g \in calendarData.groups :
       g.id = l.groupId /\ selectedLevelId \in {"all", g.levelId}
  /\ selectedStatuses = {} \/ l.status \in selectedStatuses

\* C4 as stated: a key shared by a held Lesson and a held placeholder has
\* exactly one event in the list, and it is a lesson event.
C4_Original ==
  \A key \in SharedKeys :
    /\ Cardinality(EventsAt(key)) = 1
    /\ \A e \in EventsAt(key) : e.kind = "lesson"

\* C4 (amended): a key shared by a held Lesson and a held placeholder has no
\* placeholder event, and exactly one lesson event for each held Lesson of that
\* key that passes the active filters; so exactly one event, the Lesson's, when
\* exactly one such Lesson passes, and none when the Lesson is filtered out.
C4_LessonTakesPrecedence ==
  \A key \in SharedKeys :
    LET shown == {l \in calendarData.lessons : identityKey(l) = key /\ LessonShown(l)}
    IN /\ \A e \in EventsAt(key) : e.kind = "lesson"
       /\ {e.id : e \in EventsAt(key)} = {<<"lesson", l.id>> : l \in shown}
       /\ Cardinality(EventsAt(key)) = Cardinality(shown)
       /\ Cardinality(shown) = 1 =>
            /\ Cardinality(EventsAt(key)) = 1
            /\ \A e \in EventsAt(key) : e.kind = "lesson"

\* a shared key rendered once, by its Lesson, while a placeholder of another
\* key is rendered too
C4_Witness ==
  /\ \E key \in SharedKeys : Cardinality(EventsAt(key)) = 1
  /\ \E e \in filteredEvents : e.kind = "placeholder"

\* ------------------------------------------------------------ C19
\* the placeholder passes the trimester, group and level filters and its group
\* is among the loaded groups
PlaceholderShown(x) ==
  /\ selectedTrimesterId \in {"all", x.trimesterId}
  /\ selectedGroupId \in {"all", x.groupId}
  /\ \E g \in calendarData.groups :
       g.id = x.groupId /\ selectedLevelId \in {"all", g.levelId}

HeldLessonKeys == {identityKey(l) : l \in calendarData.lessons}

EventIds(kind) == {e.id : e \in {x \in filteredEvents : x.kind = kind}}

\* C19 as stated: the list holds one event per held Lesson, and one per held
\* placeholder whose key no held Lesson has, and nothing else.
C19_Original ==
  /\ EventIds("lesson") = {<<"lesson", l.id>> : l \in calendarData.lessons}
  /\ EventIds("placeholder") =
       {<<"placeholder", x.id>> :
          x \in {y \in calendarData.placeholders : identityKey(y) \notin HeldLessonKeys}}
  /\ Cardinality(filteredEvents) =
       Cardinality(EventIds("lesson")) + Cardinality(EventIds("placeholder"))

\* C19 (amended): the list holds exactly one lesson event per held Lesson that
\* passes the trimester, group, level and status filters with its group loaded,
\* and exactly one placeholder event per held placeholder that passes the
\* trimester, group and level filters with its group loaded and whose key no
\* held Lesson has, shown or not; when every held record passes, that is every
\* Lesson, and a placeholder if and only if no Lesson has its key.
C19_ReconciledList ==
  LET shownLessons == {l \in calendarData.lessons : LessonShown(l)}
      shownPlaceholders ==
        {x \in calendarData.placeholders :
           PlaceholderShown(x) /\ identityKey(x) \notin HeldLessonKeys}
  IN /\ EventIds("lesson") = {<<"lesson", l.id>> : l \in shownLessons}
     /\ EventIds("placeholder") = {<<"placeholder", x.id>> : x \in shownPlaceholders}
     /\ Cardinality(filteredEvents) =
          Cardinality(shownLessons) + Cardinality(shownPlaceholders)
     /\ \A e \in filteredEvents : e.kind \in {"lesson", "placeholder"}
     /\ ((\A l \in calendarData.lessons : LessonShown(l)) /\
         (\A x \in calendarData.placeholders : PlaceholderShown(x))) => C19_Original

\* the status filter hides one held Lesson while another Lesson is rendered,
\* one held placeholder is rendered and one is left out for a Lesson's key
C19_Witness ==
  /\ \E l \in calendarData.lessons : ~LessonShown(l)
  /\ EventIds("lesson") # {}
  /\ EventIds("placeholder") # {}
  /\ \E x \in calendarData.placeholders :
       PlaceholderShown(x) /\ identityKey(x) \in HeldLessonKeys

\* ------------------------------------------------------------ C5
RangeOfKey(key) == [set |-> TRUE, start |-> key[1], end |-> key[2]]

\* C5: a successful range fetch applies its lessons and placeholders and
\* updates lastPrefetchedRange only if its key is latestRequestedRange when it
\* completes; a response whose key is no longer the latest changes neither the
\* held data, nor lastPrefetchedRange, nor the error state, whatever the order
\* in which overlapping fetches complete.
C5_StaleResponseDiscarded ==
  [][lastEvent'.kind \in {"resolved", "rejected"} =>
       LET key == lastEvent'.key
       IN IF latestRequestedRange = key
            THEN lastEvent'.kind = "resolved" =>
                   /\ calendarData'.lessons = getInDateRange(lessons, key[1], key[2])
                   /\ calendarData'.placeholders =
                        getInDateRange(placeholderSlots, key[1], key[2])
                   /\ lastPrefetchedRange' = RangeOfKey(key)
            ELSE /\ calendarData' = calendarData
                 /\ lastPrefetchedRange' = lastPrefetchedRange
                 /\ rangeError' = rangeError]_vars

\* an older fetch has resolved after a newer one was applied, and was discarded
C5_Witness ==
  /\ lastEvent.kind = "resolved"
  /\ latestRequestedRange # lastEvent.key
  /\ lastPrefetchedRange.set
  /\ lastPrefetchedRange # RangeOfKey(lastEvent.key)
  /\ calendarData.lessons # getInDateRange(lessons, lastEvent.key[1], lastEvent.key[2])

\* ------------------------------------------------------------ C6
\* the padded request of a visible window: [start - 7d, inclusiveEnd + 7d], in days
PaddedDays(w) ==
  LET lo == IF w[1] <= w[2] THEN w[1] ELSE w[2]
      hi == IF w[1] <= w[2] THEN w[2] ELSE w[1]
      inclusiveEnd == IF lo = hi THEN hi ELSE hi - 1
  IN <<lo - 7, inclusiveEnd + 7>>

InsideLastPrefetched(w) ==
  /\ lastPrefetchedRange.set
  /\ lastPrefetchedRange.start <= PaddedDays(w)[1]
  /\ PaddedDays(w)[2] <= lastPrefetchedRange.end

FetchIds(fs) == {<<f.key, f.n>> : f \in fs}

CompletedFetch(before, after) == CHOOSE f \in before : f \notin after

\* a request for the key would start a store fetch
WouldFetch(key, last, keys) ==
  /\ ~(last.set /\ last.start <= key[1] /\ key[2] <= last.end)
  /\ key \notin keys

\* C8: a failed range fetch that the view reports (its key is the latest
\* requested) does not change lastPrefetchedRange, removes its key from the
\* in-flight set, and a following request for the same window is not skipped as
\* contained but issues a new store fetch.
C8_RetryAfterFailureRefetches ==
  [][(lastEvent'.kind = "rejected" /\ latestRequestedRange = lastEvent'.key) =>
       /\ lastPrefetchedRange' = lastPrefetchedRange
       /\ lastEvent'.key \notin inFlightRangeKeys'
       /\ WouldFetch(lastEvent'.key, lastPrefetchedRange', inFlightRangeKeys')]_vars

\* ------------------------------------------------------------ C26
\* C26: whenever lastPrefetchedRange is set, no range error is shown and no
\* fetch for the latest requested key is in flight, the held lessons and
\* placeholders are the result of the fetch that set lastPrefetchedRange, that
\* is, the stored records dated inside it.
C26_HeldDataIsLastPrefetched ==
  (/\ lastPrefetchedRange.set
   /\ ~rangeError
   /\ \A f \in fetches : f.key # latestRequestedRange) =>
    /\ calendarData.lessons =
         getInDateRange(lessons, lastPrefetchedRange.start, lastPrefetchedRange.end)
    /\ calendarData.placeholders =
         getInDateRange(placeholderSlots, lastPrefetchedRange.start, lastPrefetchedRange.end)

\* ------------------------------------------------------------ C9
\* C9 as stated: whenever a range fetch fails the held lessons and placeholders
\* become empty and the range error is set.
C9_Original ==
  [][lastEvent'.kind = "rejected" =>
       /\ calendarData'.lessons = {} /\ calendarData'.placeholders = {}
       /\ rangeError' = TRUE]_vars

\* C9 (amended): when a range fetch whose key is still the latest requested
\* fails, the held lessons and placeholders become empty (the event list is
\* empty) and the range error is set; a failed fetch whose key is no longer the
\* latest changes neither; in both cases the view carries on.
C9_FailureClearsEvents ==
  [][lastEvent'.kind = "rejected" =>
       /\ IF latestRequestedRange = lastEvent'.key
            THEN /\ calendarData'.lessons = {} /\ calendarData'.placeholders = {}
                 /\ filteredEvents' = {}
                 /\ rangeError' = TRUE
                 /\ isRangeLoading' = FALSE
            ELSE calendarData' = calendarData /\ rangeError' = rangeError
       /\ Cardinality(fetches') = Cardinality(fetches) - 1
       /\ staticLoad' = staticLoad]_vars

\* the latest fetch failed after data of an earlier range had been shown
C9_Witness ==
  /\ lastEvent.kind = "rejected"
  /\ latestRequestedRange = lastEvent.key
  /\ rangeError /\ lastPrefetchedRange.set
  /\ calendarData.lessons = {} /\ calendarData.placeholders = {}
  /\ calendarData.groups # {}

====
